---- MODULE Spec2Model ----
(***************************************************************************)
(* State-machine model of the session loop of WebAutomationBot            *)
(* (src/bot.py): run_bot, _run_single_session, _execute_session and        *)
(* _save_session_result.  One attempt of a session is modelled await by    *)
(* await; the session timeout of asyncio.wait_for is the action            *)
(* session_timeout, which injects a CancelledError at the current await.   *)
(* Further specifications over the same variables look at one part by      *)
(* itself: SpecConfig (runs from drawn settings), SpecFair (the dwell loop   *)
(* under fairness), SpecSave (_save_session_result on larger files),        *)
(* SpecStartup and SpecProxies (config.json, proxies.txt, manage.py         *)
(* add_url), SpecDefaults (__init__ and run_bot without a config.json),     *)
(* SpecReports (the periodic reports), SpecContinue (the prompt of          *)
(* _load_existing_results), SpecPdf (_generate_pdf_report), SpecFind (the   *)
(* link search of _find_and_click_target_link), SpecClicks                  *)
(* (_random_clicks), SpecSearchError (the handler of a failed search) and   *)
(* SpecMonitor (monitor.py beside _save_session_result).                    *)
(***************************************************************************)
EXTENDS Naturals, Integers, Sequences, FiniteSets, TLC

\* ---------------------------------------------------------------- bounds
\* upper end of the daily session range drawn by _get_daily_session_count
MaxSessions == 2
\* cap of the per-session launch counter
MaxLaunches == 4
\* number of environment failures (failing library calls, missing links,
\* unexpected landings, timeouts, failing file reads) considered in one run
MaxFaults == 2
\* the same budget for the runs that start from a drawn configuration
MaxConfigFaults == 1
\* upper end of the report_frequency settings drawn
MaxReportFreq == 2
\* upper end of the session_duration_max settings drawn (in clock ticks)
MaxStay == 2
\* longest time one iteration of the dwell loop takes (in clock ticks)
MaxStep == 2
\* most records the results file holds when _save_session_result is called
MaxFileRecs == 9
\* most records in the results file when monitor.py runs beside a save
MaxMonRecs == 2
\* longest line of proxies.txt, in characters
MaxLineLen == 4
\* most lines of proxies.txt when _load_proxies is checked by itself
MaxLines == 2
\* most lines of proxies.txt when the whole start-up is checked
MaxStartupLines == 1
\* most session records in a batch handed to _generate_pdf_report
MaxBatch == 4
\* most result links on a search results page
MaxLinks == 2
\* most records in the results file of an earlier run
MaxPrevRecs == 2
\* most answers typed at the prompt of _load_existing_results
MaxAnswers == 2
\* upper end of the max_clicks_per_session settings drawn
MaxClicks == 3
\* longest keyword of a search query, in pieces of text
MaxKeywordLen == 2

\* ------------------------------------------------------ program constants
max_proxy_attempts == 3

None == "None"

proxies == {"proxy1", "proxy2"}
\* keys of the target_sites section of config.json
TargetSites == {"https://target.example/page", "https://target.example/other"}
search_engines == {"duckduckgo", "bing", "yahoo"}

DIRECT == "direct"
SEARCH == "search"
VisitMode == {DIRECT, SEARCH}

\* the search query typed for a destination (keyword + domain)
search_query(url) == "keyword target.example"

\* page.url values after the result link was clicked
OnTarget == "https://target.example/landing"
OnEngine == "https://engine.example/search?q=keyword"
OnEngineRedirect == "https://engine.example/url?q=target.example"
Elsewhere == "https://other.example/"
LandedUrls == {OnTarget, OnEngine, OnEngineRedirect, Elsewhere}

\* "search_domain in current_url" / "engine_domain in current_url"
ContainsTarget(url) == url \in {OnTarget, OnEngineRedirect}
ContainsEngine(url) == url \in {OnEngine, OnEngineRedirect}

\* the test of the wait loop: "if search_domain in current_url and
\* engine_domain not in current_url: break"
Verified(url) == ContainsTarget(url) /\ ~ContainsEngine(url)

\* "if engine_domain in actual_url and target_href:" (target_href is the
\* non-empty href the link was found by)
FallbackDue(url) == ContainsEngine(url)

\* exception texts (str(e))
ErrLaunch == "browser launch failed"
ErrNavigation == "navigation timeout"
ErrLinkNotFound == "Target domain not found in search results for query"
ErrClick == "Failed to click target link"
ErrInteraction == "interaction failed"
ErrClose == "close failed"
ErrTimeout == "Session timed out"

\* pending exception of the _execute_session coroutine
NoExc == "none"
CancelledError == "CancelledError"

VARIABLES
  pc,               \* position of run_bot
  session_num,      \* loop variable of run_bot
  daily_sessions,   \* number of sessions of this run
  override_hours,   \* run_bot's override_hours flag
  session_results,  \* self.session_results
  results_file,     \* the results JSON file: [exists, recs]
  save_calls,       \* session numbers handed to _save_session_result, in order
  run_error,        \* an exception reached run_bot's handler
  attempt,          \* loop variable of _run_single_session
  launches,         \* browser launches requested for the current session
  apc,              \* position of the current attempt
  proxy,            \* proxy of the current attempt
  visit_mode,       \* route of the current attempt
  result,           \* the SessionResult object of the current attempt
  playwright,       \* local handle of _execute_session (not None)
  browser,          \* local handle of _execute_session (not None)
  context,          \* local handle of _execute_session (not None)
  open_handles,     \* handles opened and not closed: [drivers, browsers, contexts]
  timed_out,        \* the wait_for timer fired during the current attempt
  exc,              \* exception propagating out of _execute_session
  raised,           \* a failure was raised to _execute_session in this session
  link_not_found,   \* the search step ended with link-not-found in this session
  selected_engine,  \* local of _visit_via_search
  landed,           \* page.url after the click
  faults,           \* environment failures so far in this run
  fault_budget,     \* environment failures considered in this run
  config,           \* self.config: the settings the model reads
  summary_file,     \* the summary JSON file
  reports,          \* calls of _generate_pdf_report, in order
  interrupted,      \* an exception or interrupt of run_bot's own loop body
  stay_time,        \* local of _perform_human_interactions
  elapsed,          \* time.time() since stay_time was sampled
  spc,              \* position of the start-up (manage.py, then bot.py's main)
  config_json,      \* the file config.json
  proxies_txt,      \* the file proxies.txt: [exists, lines]
  self_target_urls, \* self.target_urls after __init__
  self_proxies,     \* self.proxies after __init__
  added_url,        \* the URL manage.py's add_url reported as added
  pdf_call,         \* arguments of a call of _generate_pdf_report
  pdf_result,       \* how that call ended
  find_page,        \* the anchors of a search results page, in page order
  find_outcome,     \* how _find_and_click_target_link's search ended
  response,         \* the answer to run_bot's out-of-hours prompt
  previous_file,    \* the most recent results file of an earlier run
  continue_answers, \* the answers to the prompt of _load_existing_results
  cpc,              \* position of a call of _random_clicks
  max_clicks,       \* local of _random_clicks
  click_round,      \* iterations of "for _ in range(max_clicks)" done
  clicks,           \* local of _random_clicks
  visited_urls,     \* local of _random_clicks
  page_url,         \* page.url during _random_clicks
  click_record,     \* result.clicks and result.other_urls_visited
  search_query_typed, \* the search_query of a call of _visit_via_search
  engine_selected,  \* the selected_engine of that call
  error_record,     \* what the search handler of _execute_session recorded
  save_pc,          \* position of a call of _save_session_result
  mon_pc,           \* position of monitor.py's display_progress
  mon_summary,      \* the summary display_progress loaded
  mon_results       \* the all_results display_progress loaded

vars == <<pc, session_num, daily_sessions, override_hours, session_results,
          results_file, save_calls, run_error, attempt, launches, apc, proxy,
          visit_mode, result, playwright, browser, context, open_handles,
          timed_out, exc, raised, link_not_found, selected_engine, landed,
          faults, fault_budget, config, summary_file, reports, interrupted,
          stay_time, elapsed, spc, config_json, proxies_txt,
          self_target_urls, self_proxies, added_url, pdf_call, pdf_result,
          find_page, find_outcome, response, previous_file,
          continue_answers, cpc, max_clicks, click_round, clicks,
          visited_urls, page_url, click_record, search_query_typed,
          engine_selected, error_record, save_pc, mon_pc, mon_summary,
          mon_results>>

\* the session loop and its files
bot_vars == <<pc, session_num, daily_sessions, override_hours, session_results,
              results_file, save_calls, run_error, attempt, launches, apc,
              proxy, visit_mode, result, playwright, browser, context,
              open_handles, timed_out, exc, raised, link_not_found,
              selected_engine, landed, faults, fault_budget, config,
              summary_file, reports, interrupted, stay_time, elapsed>>

\* the start-up: the two input files and what __init__ loaded from them
startup_vars == <<spc, config_json, proxies_txt, self_target_urls,
                  self_proxies, added_url>>

\* a call of _generate_pdf_report taken by itself
pdf_vars == <<pdf_call, pdf_result>>

\* the link search of _find_and_click_target_link taken by itself
find_vars == <<find_page, find_outcome>>

\* a call of _random_clicks taken by itself
click_vars == <<cpc, max_clicks, click_round, clicks, visited_urls, page_url,
                click_record>>

\* the handler of a failed search of _execute_session taken by itself
search_error_vars == <<search_query_typed, engine_selected, error_record>>

\* monitor.py running beside a call of _save_session_result
monitor_vars == <<save_pc, mon_pc, mon_summary, mon_results>>

\* what the session loop leaves alone
side_vars == <<startup_vars, pdf_vars, find_vars, click_vars,
               search_error_vars, monitor_vars>>

\* the two prompts of run_bot's start and the file the first one is about
prompt_vars == <<response, previous_file, continue_answers>>

\* self.target_urls = list(self.target_sites.keys())
target_urls == self_target_urls

run_vars == <<session_num, daily_sessions, override_hours, session_results,
              results_file, save_calls>>

\* ------------------------------------------------------------ SessionResult
NewResult(n, mode) ==
  [session_number |-> n, web_route |-> mode, url_or_keywords |-> "",
   search_engine |-> None, target_url_reached |-> None,
   time_on_target_url |-> 0, success |-> FALSE, failure_reason |-> None]

NoResult == NewResult(0, None)

\* except Exception in _execute_session
ExceptResult(res, reason) ==
  [res EXCEPT !.failure_reason = reason, !.success = FALSE]

\* except Exception as search_error in _execute_session, then the outer handler
SearchErrorResult(res, reason, engine) ==
  LET r1 == IF reason = ErrLinkNotFound
            THEN [res EXCEPT !.url_or_keywords = search_query(None),
                             !.search_engine = engine]
            ELSE [res EXCEPT !.url_or_keywords = "Search failed",
                             !.search_engine = "unknown"]
  IN ExceptResult(r1, reason)

\* the summary file before the first save
NoSummary ==
  [exists |-> FALSE, total_sessions_completed |-> 0, successful_sessions |-> 0,
   failed_sessions |-> 0, success_rate_percent |-> 0,
   latest_session |-> NoResult]

\* ------------------------------------------------------------- proxies.txt
\* characters of a line of proxies.txt: a field character, the separator
\* and white space
Chars == {"h", ":", " "}
Whitespace == {" "}

\* the lines of up to n characters
LinesUpTo(n) == UNION {[1..k -> Chars] : k \in 0..n}

\* the files of up to n lines of up to len characters
ProxyFiles(n, len) ==
  {[exists |-> FALSE, lines |-> <<>>]} \cup
  {[exists |-> TRUE, lines |-> ls] :
     ls \in UNION {[1..k -> LinesUpTo(len)] : k \in 0..n}}

\* str.lstrip() / str.rstrip() / str.strip()
RECURSIVE lstrip(_)
lstrip(line) ==
  IF line # <<>> /\ Head(line) \in Whitespace THEN lstrip(Tail(line)) ELSE line

RECURSIVE rstrip(_)
rstrip(line) ==
  IF line # <<>> /\ line[Len(line)] \in Whitespace
  THEN rstrip(SubSeq(line, 1, Len(line) - 1))
  ELSE line

\* variant: the line is taken as read
unstripped(line) == line

strip(line) == rstrip(lstrip(line))

\* line.split(':'), with the field being read carried along
RECURSIVE SplitFrom(_, _)
SplitFrom(rest, field) ==
  IF rest = <<>> THEN <<field>>
  ELSE IF Head(rest) = ":"
  THEN <<field>> \o SplitFrom(Tail(rest), <<>>)
  ELSE SplitFrom(Tail(rest), Append(field, Head(rest)))

split(line) == SplitFrom(line, <<>>)

\* ProxyInfo(host=parts[0], port=parts[1], username=parts[2], password=parts[3])
ProxyInfo(parts) ==
  [host |-> parts[1], port |-> parts[2], username |-> parts[3],
   password |-> parts[4]]

\* "if line and ':' in line"
HasSeparator(line) == line # <<>> /\ \E p \in 1..Len(line) : line[p] = ":"

\* the for loop of _load_proxies over the lines of the file
RECURSIVE ParsedProxies(_)
ParsedProxies(lines) ==
  IF lines = <<>> THEN <<>>
  ELSE LET line == strip(Head(lines))
           parts == split(line)
       IN (IF HasSeparator(line) /\ Len(parts) >= 4
           THEN <<ProxyInfo(parts)>>
           ELSE <<>>) \o ParsedProxies(Tail(lines))

\* a proxies.txt of one well-formed line
OneProxyFile ==
  [exists |-> TRUE, lines |-> <<<<"h", ":", "h", ":", "h", ":", "h">>>>]

\* -------------------------------------------------------------- config.json
\* the sections manage.py and test_setup.py read, and the one bot.py reads
ManageSections == {"bot_settings", "target_urls", "search_keywords"}
BotSections == {"bot_settings", "target_sites"}

\* the keys of the browser_weights section run_bot reads
BrowserWeights == {"chromium", "firefox", "edge", "webkit", "brave"}

\* config.json is absent, is not valid JSON, or holds an object with some
\* sections; target_urls is manage.py's list, target_sites the keys of the
\* dict bot.py reads, browser_weights the keys of that section
NoConfigFile ==
  [state |-> "absent", sections |-> {}, target_urls |-> <<>>,
   target_sites |-> {}, browser_weights |-> {}]

MalformedConfigFile == [NoConfigFile EXCEPT !.state = "malformed"]

ConfigFiles ==
  {NoConfigFile, MalformedConfigFile} \cup
  {[state |-> "json", sections |-> secs,
    target_urls |-> IF "target_urls" \in secs THEN urls ELSE <<>>,
    target_sites |-> IF "target_sites" \in secs
                     THEN {"https://target.example/page"} ELSE {},
    browser_weights |-> BrowserWeights] :
     secs \in {ManageSections, BotSections, ManageSections \cup BotSections},
     urls \in {<<>>, <<"https://target.example/page">>}}

\* the default configuration _load_config returns
DefaultConfig ==
  [state |-> "json", sections |-> BotSections, target_urls |-> <<>>,
   target_sites |-> {"https://www.thebusinesshack.com/hire-a-pro-france"},
   browser_weights |-> {"chromium", "firefox", "edge"}]

\* a config.json with the sections bot.py reads
BotConfigFile(sites) ==
  [state |-> "json", sections |-> BotSections, target_urls |-> <<>>,
   target_sites |-> sites, browser_weights |-> BrowserWeights]

\* variant: a config.json that cannot be parsed is replaced by the defaults
LoadedConfigOrDefault(file) ==
  IF file.state = "json" THEN file ELSE DefaultConfig

\* _load_config: the parsed file, or the defaults when the file is absent;
\* the error of json.load for a malformed file is not caught
LoadedConfig(file) ==
  IF file.state = "absent" THEN DefaultConfig ELSE file

\* the start-up is over: __init__ has loaded the destinations and the
\* proxies, run_bot has been called
Started(sites) ==
  /\ spc = "run_bot"
  /\ config_json = BotConfigFile(sites)
  /\ proxies_txt = OneProxyFile
  /\ self_target_urls = sites
  /\ self_proxies = ParsedProxies(OneProxyFile.lines)
  /\ added_url = None

\* no attempt of a session is active
NoAttempt ==
  /\ run_error = FALSE
  /\ attempt = 0
  /\ launches = 0
  /\ apc = "idle"
  /\ proxy = None
  /\ visit_mode = None
  /\ playwright = FALSE
  /\ browser = FALSE
  /\ context = FALSE
  /\ open_handles = [drivers |-> 0, browsers |-> 0, contexts |-> 0]
  /\ timed_out = FALSE
  /\ exc = NoExc
  /\ raised = FALSE
  /\ link_not_found = FALSE
  /\ selected_engine = None
  /\ landed = None
  /\ faults = 0
  /\ interrupted = FALSE
  /\ stay_time = 0
  /\ elapsed = 0

\* a call that has not returned yet
Pending == [returned |-> "pending"]

\* results/ holds no session_results_*.json of an earlier run
NoPreviousFile == [exists |-> FALSE, recs |-> <<>>]

\* no prompt of run_bot has been answered
NotAsked ==
  /\ response = None
  /\ continue_answers = <<>>

\* result.clicks and result.other_urls_visited of a new SessionResult
NoClicks == [clicks |-> 0, other_urls_visited |-> <<>>]

\* _random_clicks is not looked at by itself
NoClickCall ==
  /\ cpc = "idle"
  /\ max_clicks = 0
  /\ click_round = 0
  /\ clicks = 0
  /\ visited_urls = <<>>
  /\ page_url = None
  /\ click_record = NoClicks

\* the handler of a failed search is not looked at by itself
NoSearchError ==
  /\ search_query_typed = <<>>
  /\ engine_selected = None
  /\ error_record = Pending

\* no monitor runs beside the bot
NoMonitor ==
  /\ save_pc = "idle"
  /\ mon_pc = "idle"
  /\ mon_summary = None
  /\ mon_results = None

\* no report writer or link search is looked at by itself
NoReportOrFindCall ==
  /\ pdf_call = [report_sessions |-> <<>>, start_session |-> 1]
  /\ pdf_result = Pending
  /\ find_page = <<>>
  /\ find_outcome = Pending

\* no part of the program is looked at by itself
NoSideCalls ==
  /\ NoReportOrFindCall
  /\ NoClickCall
  /\ NoSearchError
  /\ NoMonitor

\* the session loop after construction, before run_bot
InitLoop ==
  /\ NoAttempt
  /\ pc = "start"
  /\ session_num = 0
  /\ daily_sessions = 0
  /\ override_hours = FALSE
  /\ session_results = <<>>
  /\ results_file = [exists |-> FALSE, recs |-> <<>>]
  /\ save_calls = <<>>
  /\ result = NoResult
  /\ summary_file = NoSummary
  /\ reports = <<>>
  /\ NotAsked

\* the bot after construction, before run_bot, in a directory without
\* results of an earlier run
InitBot ==
  /\ InitLoop
  /\ NoSideCalls
  /\ previous_file = NoPreviousFile

\* a run with one destination, a report every MaxReportFreq sessions and a
\* dwell of one tick
InitSettings ==
  /\ fault_budget = MaxFaults
  /\ config = [daily_sessions_max |-> MaxSessions,
               report_frequency |-> MaxReportFreq,
               session_duration_min |-> 1,
               session_duration_max |-> 1,
               max_clicks_per_session |-> MaxClicks]

Init ==
  /\ InitBot
  /\ Started({"https://target.example/page"})
  /\ InitSettings

\* the settings of config.json drawn for the runs of SpecConfig
Configs ==
  [daily_sessions_max : {MaxSessions},
   report_frequency : 1..MaxReportFreq,
   session_duration_min : {1},
   session_duration_max : {1},
   max_clicks_per_session : {MaxClicks}]

\* a run from any of these settings and any non-empty set of destinations
InitConfig ==
  /\ InitBot
  /\ \E sites \in (SUBSET TargetSites) \ {{}} : Started(sites)
  /\ fault_budget = MaxConfigFaults
  /\ config \in Configs

\* an environment failure happens / does not happen in this step
Fault == faults < fault_budget /\ faults' = faults + 1
NoFault == UNCHANGED faults

\* ------------------------------------------------------- _run_single_session
\* one iteration of "for attempt in range(max_proxy_attempts)" up to the try
BeginAttempt(a) ==
  /\ attempt' = a
  /\ \E p \in proxies, m \in VisitMode :
       /\ proxy' = p
       /\ visit_mode' = m
       /\ result' = NewResult(session_num, m)
  /\ apc' = "pw_start"
  /\ playwright' = FALSE
  /\ browser' = FALSE
  /\ context' = FALSE
  /\ timed_out' = FALSE
  /\ exc' = NoExc
  /\ selected_engine' = None
  /\ landed' = None

\* variant: only the TimeoutError handler is present
CaughtOnlyTimeout(kind) == kind = "TimeoutError"

\* the exception classes the handlers of _run_single_session catch
CaughtAtSessionBoundary(kind) == kind \in {"TimeoutError", "Exception"}

\* variant: the loop body returns only a successful result
ReturnsOnlySuccess(kind, res) == kind = "return" /\ res.success

\* the paths of the loop body that end in "return result"
ReturnsResult(kind, res) == TRUE

\* how wait_for(_execute_session(...)) ends
WaitForOutcome(e) ==
  IF e = NoExc THEN "return"
  ELSE IF e = CancelledError THEN "TimeoutError"
  ELSE "Exception"

\* variant: the handlers set the failure reason only
HandledResultReasonOnly(kind, res, e) ==
  IF kind = "TimeoutError"
  THEN [res EXCEPT !.failure_reason = ErrTimeout]
  ELSE IF kind = "Exception"
  THEN [res EXCEPT !.failure_reason = e]
  ELSE res

\* the record after the try statement of _run_single_session
HandledResult(kind, res, e) ==
  IF kind = "TimeoutError"
  THEN [res EXCEPT !.failure_reason = ErrTimeout, !.success = FALSE]
  ELSE IF kind = "Exception"
  THEN [res EXCEPT !.failure_reason = e, !.success = FALSE]
  ELSE res

\* locals of _execute_session and _visit_via_search go out of scope
DropLocals ==
  /\ playwright' = FALSE
  /\ browser' = FALSE
  /\ context' = FALSE
  /\ selected_engine' = None
  /\ landed' = None
  /\ proxy' = None
  /\ exc' = NoExc

\* variant: the loop body never returns and the loop has no bound
run_single_session_retry_always ==
  /\ pc = "session"
  /\ apc = "wait_for"
  /\ BeginAttempt(attempt + 1)
  /\ UNCHANGED <<pc, run_error, run_vars, launches, open_handles, raised,
                 link_not_found, faults>>
  /\ UNCHANGED <<config, fault_budget, summary_file, reports, interrupted, stay_time, elapsed>>
  /\ UNCHANGED side_vars
  /\ UNCHANGED prompt_vars

run_single_session_finish ==
  /\ pc = "session"
  /\ apc = "wait_for"
  /\ LET kind == WaitForOutcome(exc)
         res == HandledResult(kind, result, exc)
     IN IF kind # "return" /\ ~CaughtAtSessionBoundary(kind)
        THEN \* the exception leaves _run_single_session and ends run_bot's loop
             /\ pc' = "finally"
             /\ run_error' = TRUE
             /\ apc' = "idle"
             /\ DropLocals
             /\ UNCHANGED <<result, attempt, visit_mode, timed_out>>
        ELSE IF ReturnsResult(kind, res) \/ attempt + 1 >= max_proxy_attempts
        THEN /\ result' = res
             /\ apc' = "returned"
             /\ DropLocals
             /\ UNCHANGED <<pc, run_error, attempt, visit_mode, timed_out>>
        ELSE /\ BeginAttempt(attempt + 1)
             /\ UNCHANGED <<pc, run_error>>
  /\ UNCHANGED <<run_vars, launches, open_handles, raised, link_not_found,
                 faults>>
  /\ UNCHANGED <<config, fault_budget, summary_file, reports, interrupted, stay_time, elapsed>>
  /\ UNCHANGED side_vars
  /\ UNCHANGED prompt_vars

\* ---------------------------------------------------------- _execute_session
\* an Exception raised in the try block outside the search step
RaiseInTry(reason) ==
  /\ result' = ExceptResult(result, reason)
  /\ raised' = TRUE
  /\ apc' = "close_context"

\* an Exception raised by _visit_via_search
RaiseInSearch(reason) ==
  /\ result' = SearchErrorResult(result, reason, selected_engine)
  /\ raised' = TRUE
  /\ apc' = "close_context"

execute_session_start_playwright ==
  /\ pc = "session"
  /\ apc = "pw_start"
  /\ \E ok \in BOOLEAN :
       IF ok
       THEN /\ NoFault
            /\ playwright' = TRUE
            /\ open_handles' = [open_handles EXCEPT !.drivers = @ + 1]
            /\ apc' = "launch"
            /\ UNCHANGED <<result, raised>>
       ELSE /\ Fault
            /\ RaiseInTry(ErrLaunch)
            /\ UNCHANGED <<playwright, open_handles>>
  /\ UNCHANGED <<pc, run_error, run_vars, attempt, launches, proxy, visit_mode,
                 browser, context, timed_out, exc, link_not_found,
                 selected_engine, landed>>
  /\ UNCHANGED <<config, fault_budget, summary_file, reports, interrupted, stay_time, elapsed>>
  /\ UNCHANGED side_vars
  /\ UNCHANGED prompt_vars

launch_browser ==
  /\ pc = "session"
  /\ apc = "launch"
  /\ launches < MaxLaunches
  /\ launches' = launches + 1
  /\ \E ok \in BOOLEAN :
       IF ok
       THEN /\ NoFault
            /\ browser' = TRUE
            /\ open_handles' = [open_handles EXCEPT !.browsers = @ + 1]
            /\ apc' = "context"
            /\ UNCHANGED <<result, raised>>
       ELSE /\ Fault
            /\ RaiseInTry(ErrLaunch)
            /\ UNCHANGED <<browser, open_handles>>
  /\ UNCHANGED <<pc, run_error, run_vars, attempt, proxy, visit_mode,
                 playwright, context, timed_out, exc, link_not_found,
                 selected_engine, landed>>
  /\ UNCHANGED <<config, fault_budget, summary_file, reports, interrupted, stay_time, elapsed>>
  /\ UNCHANGED side_vars
  /\ UNCHANGED prompt_vars

\* _create_browser_context and context.new_page()
create_browser_context ==
  /\ pc = "session"
  /\ apc = "context"
  /\ \E ok \in BOOLEAN :
       IF ok
       THEN /\ NoFault
            /\ context' = TRUE
            /\ open_handles' = [open_handles EXCEPT !.contexts = @ + 1]
            /\ apc' = "ip_info"
            /\ UNCHANGED <<result, raised>>
       ELSE /\ Fault
            /\ RaiseInTry(ErrLaunch)
            /\ UNCHANGED <<context, open_handles>>
  /\ UNCHANGED <<pc, run_error, run_vars, attempt, launches, proxy, visit_mode,
                 playwright, browser, timed_out, exc, link_not_found,
                 selected_engine, landed>>
  /\ UNCHANGED <<config, fault_budget, summary_file, reports, interrupted, stay_time, elapsed>>
  /\ UNCHANGED side_vars
  /\ UNCHANGED prompt_vars

\* _get_ip_info swallows every exception of its lookups
get_ip_info ==
  /\ pc = "session"
  /\ apc = "ip_info"
  /\ apc' = IF visit_mode = DIRECT THEN "visit_direct" ELSE "search_goto"
  /\ UNCHANGED <<pc, run_error, run_vars, attempt, launches, proxy, visit_mode,
                 result, playwright, browser, context, open_handles, timed_out,
                 exc, raised, link_not_found, selected_engine, landed,
                 faults>>
  /\ UNCHANGED <<config, fault_budget, summary_file, reports, interrupted, stay_time, elapsed>>
  /\ UNCHANGED side_vars
  /\ UNCHANGED prompt_vars

\* variant: the address the page ended on is returned
VisitDirectPageUrl(target_url) == OnTarget

\* "return target_url" of _visit_direct
VisitDirectReturn(target_url) == target_url

\* target_url = random.choice(self.target_urls), page.goto(target_url), and
\* the two assignments of _execute_session
visit_direct ==
  /\ pc = "session"
  /\ apc = "visit_direct"
  /\ \E target_url \in target_urls, ok \in BOOLEAN :
       IF ok
       THEN /\ NoFault
            /\ result' =
                 [result EXCEPT
                    !.url_or_keywords = VisitDirectReturn(target_url),
                    !.target_url_reached = VisitDirectReturn(target_url)]
            /\ apc' = "interact"
            /\ UNCHANGED raised
       ELSE /\ Fault
            /\ RaiseInTry(ErrNavigation)
  /\ UNCHANGED <<pc, run_error, run_vars, attempt, launches, proxy, visit_mode,
                 playwright, browser, context, open_handles, timed_out, exc,
                 link_not_found, selected_engine, landed>>
  /\ UNCHANGED <<config, fault_budget, summary_file, reports, interrupted, stay_time, elapsed>>
  /\ UNCHANGED side_vars
  /\ UNCHANGED prompt_vars

\* ---------------------------------------------------------- _visit_via_search
\* choice of destination, query and engine, then page.goto(engine)
visit_via_search_goto ==
  /\ pc = "session"
  /\ apc = "search_goto"
  /\ \E engine \in search_engines, ok \in BOOLEAN :
       /\ selected_engine' = engine
       /\ IF ok
          THEN /\ NoFault
               /\ apc' = "search_cookie"
               /\ UNCHANGED <<result, raised>>
          ELSE /\ Fault
               /\ result' = SearchErrorResult(result, ErrNavigation, engine)
               /\ raised' = TRUE
               /\ apc' = "close_context"
  /\ UNCHANGED <<pc, run_error, run_vars, attempt, launches, proxy, visit_mode,
                 playwright, browser, context, open_handles, timed_out, exc,
                 link_not_found, landed>>
  /\ UNCHANGED <<config, fault_budget, summary_file, reports, interrupted, stay_time, elapsed>>
  /\ UNCHANGED side_vars
  /\ UNCHANGED prompt_vars

\* the cookie banner: try ... except: pass
search_accept_cookies ==
  /\ pc = "session"
  /\ apc = "search_cookie"
  /\ apc' = "search_box"
  /\ UNCHANGED <<pc, run_error, run_vars, attempt, launches, proxy, visit_mode,
                 result, playwright, browser, context, open_handles, timed_out,
                 exc, raised, link_not_found, selected_engine, landed,
                 faults>>
  /\ UNCHANGED <<config, fault_budget, summary_file, reports, interrupted, stay_time, elapsed>>
  /\ UNCHANGED side_vars
  /\ UNCHANGED prompt_vars

\* wait for the search box, type the query, press Enter, wait for the results
search_type_query ==
  /\ pc = "session"
  /\ apc = "search_box"
  /\ \E ok \in BOOLEAN :
       IF ok
       THEN /\ NoFault
            /\ apc' = "find_link"
            /\ UNCHANGED <<result, raised>>
       ELSE /\ Fault
            /\ RaiseInSearch(ErrNavigation)
  /\ UNCHANGED <<pc, run_error, run_vars, attempt, launches, proxy, visit_mode,
                 playwright, browser, context, open_handles, timed_out, exc,
                 link_not_found, selected_engine, landed>>
  /\ UNCHANGED <<config, fault_budget, summary_file, reports, interrupted, stay_time, elapsed>>
  /\ UNCHANGED side_vars
  /\ UNCHANGED prompt_vars

\* _find_and_click_target_link: the selector loop
find_target_link ==
  /\ pc = "session"
  /\ apc = "find_link"
  /\ \E outcome \in {"found", "not_found", "error"} :
       CASE outcome = "found" ->
              /\ NoFault
              /\ apc' = "click"
              /\ UNCHANGED <<result, raised, link_not_found>>
         [] outcome = "not_found" ->
              /\ Fault
              /\ RaiseInSearch(ErrLinkNotFound)
              /\ link_not_found' = TRUE
         [] outcome = "error" ->
              /\ Fault
              /\ RaiseInSearch(ErrClick)
              /\ UNCHANGED link_not_found
  /\ UNCHANGED <<pc, run_error, run_vars, attempt, launches, proxy, visit_mode,
                 playwright, browser, context, open_handles, timed_out, exc,
                 selected_engine, landed>>
  /\ UNCHANGED <<config, fault_budget, summary_file, reports, interrupted, stay_time, elapsed>>
  /\ UNCHANGED side_vars
  /\ UNCHANGED prompt_vars

\* _find_and_click_target_link: scroll into view, read href, click
click_target_link ==
  /\ pc = "session"
  /\ apc = "click"
  /\ \E ok \in BOOLEAN :
       IF ok
       THEN /\ NoFault
            /\ apc' = "verify"
            /\ UNCHANGED <<result, raised>>
       ELSE /\ Fault
            /\ RaiseInSearch(ErrClick)
  /\ UNCHANGED <<pc, run_error, run_vars, attempt, launches, proxy, visit_mode,
                 playwright, browser, context, open_handles, timed_out, exc,
                 link_not_found, selected_engine, landed>>
  /\ UNCHANGED <<config, fault_budget, summary_file, reports, interrupted, stay_time, elapsed>>
  /\ UNCHANGED side_vars
  /\ UNCHANGED prompt_vars

\* _visit_via_search returns (search_query, actual_url, selected_engine)
SearchReturns(res, actual_url, engine) ==
  [res EXCEPT !.url_or_keywords = search_query(None),
              !.target_url_reached = actual_url,
              !.search_engine = engine]

\* _find_and_click_target_link: the wait loop after the click, actual_url = page.url
verify_landing ==
  /\ pc = "session"
  /\ apc = "verify"
  /\ \E url \in LandedUrls :
       /\ landed' = url
       /\ IF Verified(url) THEN NoFault ELSE Fault
       /\ IF FallbackDue(url)
          THEN /\ apc' = "fallback"
               /\ UNCHANGED result
          ELSE /\ apc' = "interact"
               /\ result' = SearchReturns(result, url, selected_engine)
  /\ UNCHANGED <<pc, run_error, run_vars, attempt, launches, proxy, visit_mode,
                 playwright, browser, context, open_handles, timed_out, exc,
                 raised, link_not_found, selected_engine>>
  /\ UNCHANGED <<config, fault_budget, summary_file, reports, interrupted, stay_time, elapsed>>
  /\ UNCHANGED side_vars
  /\ UNCHANGED prompt_vars

\* _find_and_click_target_link: page.goto(target_href) in try / except Exception
fallback_navigation ==
  /\ pc = "session"
  /\ apc = "fallback"
  /\ \E ok \in BOOLEAN :
       LET url == IF ok THEN OnTarget ELSE landed
       IN /\ IF ok THEN NoFault ELSE Fault
          /\ landed' = url
          /\ result' = SearchReturns(result, url, selected_engine)
  /\ apc' = "interact"
  /\ UNCHANGED <<pc, run_error, run_vars, attempt, launches, proxy, visit_mode,
                 playwright, browser, context, open_handles, timed_out, exc,
                 raised, link_not_found, selected_engine>>
  /\ UNCHANGED <<config, fault_budget, summary_file, reports, interrupted, stay_time, elapsed>>
  /\ UNCHANGED side_vars
  /\ UNCHANGED prompt_vars

\* _perform_human_interactions up to its while loop: mouse movement,
\* scrolling and random clicks, then stay_time is sampled
perform_human_interactions ==
  /\ pc = "session"
  /\ apc = "interact"
  /\ \E ok \in BOOLEAN :
       IF ok
       THEN /\ NoFault
            /\ \E t \in config.session_duration_min..config.session_duration_max :
                 stay_time' = t
            /\ elapsed' = 0
            /\ apc' = "dwell"
            /\ UNCHANGED <<result, raised>>
       ELSE /\ Fault
            /\ RaiseInTry(ErrInteraction)
            /\ UNCHANGED <<stay_time, elapsed>>
  /\ UNCHANGED <<pc, run_error, run_vars, attempt, launches, proxy, visit_mode,
                 playwright, browser, context, open_handles, timed_out, exc,
                 link_not_found, selected_engine, landed>>
  /\ UNCHANGED <<config, fault_budget, summary_file, reports, interrupted>>
  /\ UNCHANGED side_vars
  /\ UNCHANGED prompt_vars

\* variant: the clock does not advance during an iteration
ClockStopped(now, step) == now

\* time.time() after an iteration of the loop that took step ticks
ClockAfter(now, step) == now + step

\* "while time.time() < end_time": one iteration (scroll, mouse or wait), or
\* the loop exits, _perform_human_interactions returns and
\* result.success = True
human_interaction_loop ==
  /\ pc = "session"
  /\ apc = "dwell"
  /\ IF elapsed < stay_time
     THEN /\ \E step \in 1..MaxStep : elapsed' = ClockAfter(elapsed, step)
          /\ UNCHANGED <<result, apc, stay_time>>
     ELSE /\ result' = [result EXCEPT !.success = TRUE]
          /\ apc' = "close_context"
          /\ stay_time' = 0
          /\ elapsed' = 0
  /\ UNCHANGED <<pc, run_error, run_vars, attempt, launches, proxy, visit_mode,
                 playwright, browser, context, open_handles, timed_out, exc,
                 raised, link_not_found, selected_engine, landed, faults>>
  /\ UNCHANGED <<config, fault_budget, summary_file, reports, interrupted>>
  /\ UNCHANGED side_vars
  /\ UNCHANGED prompt_vars

\* ------------------------------------------------ the finally block
\* A close that raises reports a handle that is already gone (the browser
\* crashed or was disconnected): the handle itself does not stay open, but
\* the exception leaves the finally block and the closes after it are skipped.
\* if context: await context.close()
close_context ==
  /\ pc = "session"
  /\ apc = "close_context"
  /\ IF context
     THEN \E ok \in BOOLEAN :
            /\ open_handles' = [open_handles EXCEPT !.contexts = @ - 1]
            /\ IF ok
               THEN /\ NoFault
                    /\ apc' = "close_browser"
                    /\ UNCHANGED <<exc, raised>>
               ELSE /\ Fault
                    /\ exc' = ErrClose
                    /\ raised' = TRUE
                    /\ apc' = "wait_for"
     ELSE /\ apc' = "close_browser"
          /\ UNCHANGED <<open_handles, exc, raised, faults>>
  /\ UNCHANGED <<pc, run_error, run_vars, attempt, launches, proxy, visit_mode,
                 result, playwright, browser, context, timed_out,
                 link_not_found, selected_engine, landed>>
  /\ UNCHANGED <<config, fault_budget, summary_file, reports, interrupted, stay_time, elapsed>>
  /\ UNCHANGED side_vars
  /\ UNCHANGED prompt_vars

\* if browser: await browser.close()
close_browser ==
  /\ pc = "session"
  /\ apc = "close_browser"
  /\ IF browser
     THEN \E ok \in BOOLEAN :
            /\ open_handles' = [open_handles EXCEPT !.browsers = @ - 1]
            /\ IF ok
               THEN /\ NoFault
                    /\ apc' = "stop_playwright"
                    /\ UNCHANGED <<exc, raised>>
               ELSE /\ Fault
                    /\ exc' = ErrClose
                    /\ raised' = TRUE
                    /\ apc' = "wait_for"
     ELSE /\ apc' = "stop_playwright"
          /\ UNCHANGED <<open_handles, exc, raised, faults>>
  /\ UNCHANGED <<pc, run_error, run_vars, attempt, launches, proxy, visit_mode,
                 result, playwright, browser, context, timed_out,
                 link_not_found, selected_engine, landed>>
  /\ UNCHANGED <<config, fault_budget, summary_file, reports, interrupted, stay_time, elapsed>>
  /\ UNCHANGED side_vars
  /\ UNCHANGED prompt_vars

\* if playwright: await playwright.stop(); then "return result"
stop_playwright ==
  /\ pc = "session"
  /\ apc = "stop_playwright"
  /\ IF playwright
     THEN \E ok \in BOOLEAN :
            /\ open_handles' = [open_handles EXCEPT !.drivers = @ - 1]
            /\ IF ok
               THEN /\ NoFault
                    /\ UNCHANGED <<exc, raised>>
               ELSE /\ Fault
                    /\ exc' = ErrClose
                    /\ raised' = TRUE
     ELSE UNCHANGED <<open_handles, exc, raised, faults>>
  /\ apc' = "wait_for"
  /\ UNCHANGED <<pc, run_error, run_vars, attempt, launches, proxy, visit_mode,
                 result, playwright, browser, context, timed_out,
                 link_not_found, selected_engine, landed>>
  /\ UNCHANGED <<config, fault_budget, summary_file, reports, interrupted, stay_time, elapsed>>
  /\ UNCHANGED side_vars
  /\ UNCHANGED prompt_vars

\* ------------------------------------------------ asyncio.wait_for timeout
\* awaits whose enclosing bare "except:" swallows the CancelledError
SwallowsCancel == {"ip_info", "search_cookie", "verify"}
\* find_link awaits both inside and outside a bare "except:"
MaySwallowCancel == {"find_link"}
\* the other awaits of the try block
TryAwaits == {"pw_start", "launch", "context", "visit_direct", "search_goto",
              "search_box", "find_link", "click", "fallback", "interact",
              "dwell"}
\* the awaits of the finally block
FinallyAwaits == {"close_context", "close_browser", "stop_playwright"}

\* the awaits of the finally block that do close a handle
AwaitsClose(p) ==
  \/ p = "close_context" /\ context
  \/ p = "close_browser" /\ browser
  \/ p = "stop_playwright" /\ playwright

\* the timer of wait_for fires: the coroutine is cancelled at its current await
session_timeout ==
  /\ pc = "session"
  /\ ~timed_out
  /\ timed_out' = TRUE
  /\ Fault
  /\ \/ /\ apc \in SwallowsCancel \cup MaySwallowCancel
        /\ UNCHANGED <<apc, exc, stay_time, elapsed>>
     \/ /\ apc \in TryAwaits
        /\ exc' = CancelledError
        /\ apc' = "close_context"
        /\ stay_time' = 0
        /\ elapsed' = 0
     \/ /\ apc \in FinallyAwaits
        /\ AwaitsClose(apc)
        /\ exc' = CancelledError
        /\ apc' = "wait_for"
        /\ UNCHANGED <<stay_time, elapsed>>
  /\ UNCHANGED <<pc, run_error, run_vars, attempt, launches, proxy, visit_mode,
                 result, playwright, browser, context, open_handles, raised,
                 link_not_found, selected_engine, landed>>
  /\ UNCHANGED <<config, fault_budget, summary_file, reports, interrupted>>
  /\ UNCHANGED side_vars
  /\ UNCHANGED prompt_vars

\* ------------------------------------------------------- _save_session_result
\* "Load existing results or create new list"
LoadedResults(file, read_ok) ==
  IF file.exists /\ read_ok THEN file.recs ELSE <<>>

\* the results file after _save_session_result(res): the loaded list with
\* the new record appended is written back
SavedFile(file, res, read_ok) ==
  [exists |-> TRUE, recs |-> Append(LoadedResults(file, read_ok), res)]

\* sum(1 for r in all_results if r['success'])
RECURSIVE SuccessfulCount(_)
SuccessfulCount(recs) ==
  IF recs = <<>> THEN 0
  ELSE (IF Head(recs).success THEN 1 ELSE 0) + SuccessfulCount(Tail(recs))

\* variant: the rate is cut off after the first decimal
TruncatedTenths(num, den) == (1000 * num) \div den

\* round(num / den * 100, 1), in tenths of a percent: the nearest tenth,
\* a tie going to the even one
RoundedTenths(num, den) ==
  LET q == (1000 * num) \div den
      r == (1000 * num) % den
  IN IF 2 * r > den \/ (2 * r = den /\ q % 2 = 1) THEN q + 1 ELSE q

\* success_rate = (successful / total * 100) if total > 0 else 0
SuccessRate(successful, total) ==
  IF total > 0 THEN RoundedTenths(successful, total) ELSE 0

\* the summary written after all_results was written back
SavedSummary(all_results, res) ==
  LET successful == SuccessfulCount(all_results)
      total == Len(all_results)
  IN [exists |-> TRUE,
      total_sessions_completed |-> total,
      successful_sessions |-> successful,
      failed_sessions |-> total - successful,
      success_rate_percent |-> SuccessRate(successful, total),
      latest_session |-> res]

\* ------------------------------------------------------ _generate_pdf_report
\* exception texts
ZeroDivisionError == "division by zero"
ErrPdf == "reportlab failed"

\* the report that was not written
NoReport ==
  [first |-> 0, last |-> 0, total |-> 0, success |-> 0, fail |-> 0,
   rate |-> [error |-> NoExc, tenths |-> 0, decimals |-> 0], details |-> <<>>]

\* variant: the rate is computed without the guard
SuccessRateCellUnguarded(success, total) ==
  IF total = 0 THEN [error |-> ZeroDivisionError, tenths |-> 0, decimals |-> 0]
  ELSE [error |-> NoExc, tenths |-> RoundedTenths(success, total),
        decimals |-> 1]

\* the cell f"{(success/total*100):.1f}%" if total > 0 else "0%": the rate
\* in tenths of a percent and the number of decimals printed
SuccessRateCell(success, total) ==
  IF total > 0
  THEN [error |-> NoExc, tenths |-> RoundedTenths(success, total),
        decimals |-> 1]
  ELSE [error |-> NoExc, tenths |-> 0, decimals |-> 0]

\* the try block: the summary table and one table per session, then
\* doc.build; the calls into reportlab and the file system may raise
PdfTryBlock(report_sessions, start_session, lib_ok) ==
  LET end_session == start_session + Len(report_sessions) - 1
      total == Len(report_sessions)
      success == SuccessfulCount(report_sessions)
      fail == total - success
      rate == SuccessRateCell(success, total)
  IN [exc |-> IF rate.error # NoExc THEN rate.error
              ELSE IF ~lib_ok THEN ErrPdf
              ELSE NoExc,
      report |-> [first |-> start_session, last |-> end_session,
                  total |-> total, success |-> success, fail |-> fail,
                  rate |-> rate,
                  details |-> [i \in 1..total |->
                                 report_sessions[i].session_number]]]

\* _generate_pdf_report: "return True" at the end of the try block,
\* "except Exception ... return False"
GeneratePdfReport(report_sessions, start_session, lib_ok) ==
  LET body == PdfTryBlock(report_sessions, start_session, lib_ok)
  IN IF body.exc = NoExc
     THEN [returned |-> "True", raised |-> NoExc, lib_ok |-> lib_ok,
           report |-> body.report]
     ELSE [returned |-> "False", raised |-> NoExc, lib_ok |-> lib_ok,
           report |-> NoReport]

\* -------------------------------------------------------------------- run_bot
\* the slice list[-count:]
LastEntries(list, count) ==
  SubSeq(list, IF Len(list) > count THEN Len(list) - count + 1 ELSE 1,
         Len(list))

\* the session_number values of a batch, in order
SessionNumbers(report_sessions) ==
  [i \in 1..Len(report_sessions) |-> report_sessions[i].session_number]

\* a call _generate_pdf_report(report_sessions, start_session): the batch is
\* the last count entries of self.session_results
ReportCall(start_session, count, produced) ==
  [start_session |-> start_session, count |-> count, produced |-> produced,
   numbers |-> SessionNumbers(LastEntries(session_results, count))]

\* what that call returns
Produced(start_session, count, lib_ok) ==
  GeneratePdfReport(LastEntries(session_results, count), start_session,
                    lib_ok).returned = "True"

\* what is typed at "Do you want to continue from the previous session?
\* (Y/N)", stripped and in upper case ("YES" and "NO" as "Y" and "N")
ContinueAnswers == {"Y", "N", "maybe"}

\* "Add missing target_url_reached field for backward compatibility"
UpdatedRecord(r) ==
  IF "target_url_reached" \in DOMAIN r THEN r
  ELSE [f \in DOMAIN r \cup {"target_url_reached"} |->
          IF f # "target_url_reached" THEN r[f]
          ELSE IF r.web_route = DIRECT THEN r.url_or_keywords ELSE None]

\* updated_data: the records of the previous file, in file order
UpdatedData(recs) == [i \in 1..Len(recs) |-> UpdatedRecord(recs[i])]

\* the summary written for a continued run (it has no latest_session)
ContinuedSummary(updated_data) ==
  LET successful == SuccessfulCount(updated_data)
      total == Len(updated_data)
  IN [exists |-> TRUE,
      total_sessions_completed |-> total,
      successful_sessions |-> successful,
      failed_sessions |-> total - successful,
      success_rate_percent |-> SuccessRate(successful, total),
      latest_session |-> NoResult]

\* "if response in ['Y', 'YES']"
CopiedOnYes(answer) == answer = "Y"

\* _load_existing_results, called first by run_bot: the most recent results
\* file of an earlier run is read (an exception is logged and nothing else
\* happens); when it holds records the operator is asked; one answer is
\* taken per step, and any answer but Y and N leaves the prompt open
load_existing_results ==
  /\ pc = "start"
  /\ spc = "run_bot"
  /\ \E read_ok \in BOOLEAN, answer \in ContinueAnswers :
       LET updated_data == UpdatedData(previous_file.recs)
       IN IF ~previous_file.exists
          THEN /\ NoFault
               /\ pc' = "hours"
               /\ UNCHANGED <<results_file, summary_file, continue_answers>>
          ELSE IF ~read_ok /\ continue_answers = <<>>
          THEN /\ Fault
               /\ pc' = "hours"
               /\ UNCHANGED <<results_file, summary_file, continue_answers>>
          ELSE IF Len(updated_data) = 0
          THEN /\ NoFault
               /\ pc' = "hours"
               /\ UNCHANGED <<results_file, summary_file, continue_answers>>
          ELSE /\ NoFault
               /\ Len(continue_answers) < MaxAnswers
               /\ answer \in {"Y", "N"} \/ Len(continue_answers) + 1 < MaxAnswers
               /\ continue_answers' = Append(continue_answers, answer)
               /\ IF CopiedOnYes(answer)
                  THEN /\ results_file' = [exists |-> TRUE, recs |-> updated_data]
                       /\ summary_file' = ContinuedSummary(updated_data)
                  ELSE UNCHANGED <<results_file, summary_file>>
               /\ pc' = IF answer \in {"Y", "N"} THEN "hours" ELSE pc
  /\ UNCHANGED <<session_num, daily_sessions, override_hours, session_results,
                 save_calls, run_error, attempt, launches, apc, proxy,
                 visit_mode, result, playwright, browser, context, open_handles,
                 timed_out, exc, raised, link_not_found, selected_engine,
                 landed>>
  /\ UNCHANGED <<config, fault_budget, reports, interrupted, stay_time,
                 elapsed>>
  /\ UNCHANGED side_vars
  /\ UNCHANGED <<response, previous_file>>

\* the answers the out-of-hours prompt accepts ("YES" and "NO" as "Y", "N")
HoursAnswers == {"Y", "N"}

\* run_bot from the operating-hours check to the session loop, with
\* _is_french_hours() returning in_hours and, outside the hours, the operator
\* answering the prompt; then the daily session count
run_bot_start_at(in_hours, answer) ==
  /\ pc = "hours"
  /\ response' = (IF in_hours THEN None ELSE answer)
  /\ override_hours' = (IF in_hours THEN TRUE ELSE answer = "Y")
  /\ \E n \in 1..config.daily_sessions_max : daily_sessions' = n
  /\ session_num' = 1
  /\ pc' = "loop_head"
  /\ UNCHANGED <<session_results, results_file, save_calls, run_error, attempt,
                 launches, apc, proxy, visit_mode, result, playwright, browser,
                 context, open_handles, timed_out, exc, raised, link_not_found,
                 selected_engine, landed,
                 faults>>
  /\ UNCHANGED <<config, fault_budget, summary_file, reports, interrupted, stay_time, elapsed>>
  /\ UNCHANGED side_vars
  /\ UNCHANGED <<previous_file, continue_answers>>

run_bot_start ==
  \E in_hours \in BOOLEAN, answer \in HoursAnswers :
    run_bot_start_at(in_hours, answer)

\* self.config: what _load_config returned for config.json
SelfConfig == LoadedConfig(config_json)

\* self.config['browser_weights'][...] for the five browser types: a
\* missing key raises KeyError
WeightsPresent(weights) == BrowserWeights \subseteq weights

\* top of the loop body with _is_french_hours() returning in_hours: the
\* hours check, the choice of the browser type (a KeyError is caught by
\* run_bot's handler and the finally block runs), then the call of
\* _run_single_session
run_bot_loop_head_at(in_hours) ==
  /\ pc = "loop_head"
  /\ IF ~override_hours /\ ~in_hours
     THEN /\ pc' = "finally"
          /\ UNCHANGED <<attempt, launches, apc, proxy, visit_mode, result,
                         playwright, browser, context, timed_out, exc, raised,
                         link_not_found, selected_engine, landed, interrupted>>
     ELSE IF ~WeightsPresent(SelfConfig.browser_weights)
     THEN /\ pc' = "finally"
          /\ interrupted' = TRUE
          /\ UNCHANGED <<attempt, launches, apc, proxy, visit_mode, result,
                         playwright, browser, context, timed_out, exc, raised,
                         link_not_found, selected_engine, landed>>
     ELSE /\ pc' = "session"
          /\ launches' = 0
          /\ raised' = FALSE
          /\ link_not_found' = FALSE
          /\ BeginAttempt(0)
          /\ UNCHANGED interrupted
  /\ UNCHANGED <<run_vars, run_error, open_handles,
                 faults>>
  /\ UNCHANGED <<config, fault_budget, summary_file, reports, stay_time, elapsed>>
  /\ UNCHANGED side_vars
  /\ UNCHANGED prompt_vars

run_bot_loop_head == \E in_hours \in BOOLEAN : run_bot_loop_head_at(in_hours)

\* variant: the session coroutine is not awaited
SessionNotAwaited == TRUE

\* "result = await self._run_single_session(...)": run_bot resumes only when
\* the coroutine has returned
SessionAwaited == apc = "returned"

\* variant: only successful records are kept
AppendedOnlySuccess(results, res) ==
  IF res.success THEN Append(results, res) ELSE results

\* self.session_results.append(result)
AppendedResults(results, res) == Append(results, res)

run_bot_append ==
  /\ pc = "session"
  /\ SessionAwaited
  /\ session_results' = AppendedResults(session_results, result)
  /\ pc' = "save"
  /\ apc' = (IF apc = "returned" THEN "idle" ELSE apc)
  /\ UNCHANGED <<session_num, daily_sessions, override_hours, results_file,
                 save_calls, run_error, attempt, launches, proxy, visit_mode,
                 result, playwright, browser, context, open_handles, timed_out,
                 exc, raised, link_not_found, selected_engine, landed,
                 faults>>
  /\ UNCHANGED <<config, fault_budget, summary_file, reports, interrupted, stay_time, elapsed>>
  /\ UNCHANGED side_vars
  /\ UNCHANGED prompt_vars

\* self._save_session_result(result)
run_bot_save ==
  /\ pc = "save"
  /\ \E read_ok \in BOOLEAN :
       LET file == SavedFile(results_file, result, read_ok)
       IN /\ IF read_ok THEN NoFault ELSE Fault
          /\ results_file' = file
          /\ summary_file' = SavedSummary(file.recs, result)
  /\ save_calls' = Append(save_calls, result.session_number)
  /\ pc' = "report"
  /\ UNCHANGED <<session_num, daily_sessions, override_hours, session_results,
                 run_error, attempt, launches, apc, proxy, visit_mode, result,
                 playwright, browser, context, open_handles, timed_out, exc,
                 raised, link_not_found, selected_engine, landed>>
  /\ UNCHANGED <<config, fault_budget, reports, interrupted, stay_time, elapsed>>
  /\ UNCHANGED side_vars
  /\ UNCHANGED prompt_vars

\* variant: the periodic report is due at every session
ReportAlwaysDue(n, report_freq) == TRUE

\* "if len(self.session_results) % report_freq == 0"
PeriodicReportDue(n, report_freq) == n % report_freq = 0

\* "Generate report every configured frequency"
run_bot_report ==
  /\ pc = "report"
  /\ LET report_freq == config.report_frequency
         n == Len(session_results)
     IN IF PeriodicReportDue(n, report_freq)
        THEN \E lib_ok \in BOOLEAN :
               /\ IF lib_ok THEN NoFault ELSE Fault
               /\ reports' = Append(reports,
                    ReportCall(n - report_freq + 1, report_freq,
                               Produced(n - report_freq + 1, report_freq,
                                        lib_ok)))
        ELSE /\ NoFault
             /\ UNCHANGED reports
  /\ pc' = "iter_end"
  /\ UNCHANGED <<run_vars, run_error, attempt, launches, apc, proxy,
                 visit_mode, result, playwright, browser, context, open_handles,
                 timed_out, exc, raised, link_not_found, selected_engine,
                 landed>>
  /\ UNCHANGED <<config, fault_budget, summary_file, interrupted, stay_time,
                 elapsed>>
  /\ UNCHANGED side_vars
  /\ UNCHANGED prompt_vars

\* positions of run_bot's loop body outside the awaited session: the top of
\* the body, the display of the record, the periodic cleanup and the delay
InterruptPoints == {"loop_head", "save", "report", "iter_end"}

\* KeyboardInterrupt, or an Exception raised by a statement of the loop body:
\* the except clauses of run_bot print it and the finally block runs
run_bot_interrupt ==
  /\ pc \in InterruptPoints
  /\ Fault
  /\ interrupted' = TRUE
  /\ pc' = "finally"
  /\ UNCHANGED <<run_vars, run_error, attempt, launches, apc, proxy,
                 visit_mode, result, playwright, browser, context, open_handles,
                 timed_out, exc, raised, link_not_found, selected_engine,
                 landed>>
  /\ UNCHANGED <<config, fault_budget, summary_file, reports, stay_time,
                 elapsed>>
  /\ UNCHANGED side_vars
  /\ UNCHANGED prompt_vars

\* end of the loop body: the next session number, or the loop is exhausted
run_bot_iter_end ==
  /\ pc = "iter_end"
  /\ IF session_num < daily_sessions
     THEN /\ session_num' = session_num + 1
          /\ pc' = "loop_head"
     ELSE /\ pc' = "finally"
          /\ UNCHANGED session_num
  /\ UNCHANGED <<daily_sessions, override_hours, session_results, results_file,
                 save_calls, run_error, attempt, launches, apc, proxy,
                 visit_mode, result, playwright, browser, context, open_handles,
                 timed_out, exc, raised, link_not_found, selected_engine,
                 landed,
                 faults>>
  /\ UNCHANGED <<config, fault_budget, summary_file, reports, interrupted, stay_time, elapsed>>
  /\ UNCHANGED side_vars
  /\ UNCHANGED prompt_vars

\* the finally block of run_bot: "Generate final report if there are
\* remaining sessions or any sessions at all"
run_bot_finally ==
  /\ pc = "finally"
  /\ LET report_freq == config.report_frequency
         n == Len(session_results)
         remaining_sessions == n % report_freq
     IN IF n > 0 /\ remaining_sessions # 0
        THEN \E lib_ok \in BOOLEAN :
               /\ IF lib_ok THEN NoFault ELSE Fault
               /\ reports' = Append(reports,
                    ReportCall(n - remaining_sessions + 1, remaining_sessions,
                               Produced(n - remaining_sessions + 1,
                                        remaining_sessions, lib_ok)))
        ELSE IF n > 0 /\ n < report_freq
        THEN \E lib_ok \in BOOLEAN :
               /\ IF lib_ok THEN NoFault ELSE Fault
               /\ reports' = Append(reports,
                                    ReportCall(1, n, Produced(1, n, lib_ok)))
        ELSE /\ NoFault
             /\ UNCHANGED reports
  /\ pc' = "done"
  /\ UNCHANGED <<run_vars, run_error, attempt, launches, apc, proxy,
                 visit_mode, result, playwright, browser, context, open_handles,
                 timed_out, exc, raised, link_not_found, selected_engine,
                 landed>>
  /\ UNCHANGED <<config, fault_budget, summary_file, interrupted, stay_time, elapsed>>
  /\ UNCHANGED side_vars
  /\ UNCHANGED prompt_vars

Next ==
  \/ load_existing_results
  \/ run_bot_start
  \/ run_bot_loop_head
  \/ execute_session_start_playwright
  \/ launch_browser
  \/ create_browser_context
  \/ get_ip_info
  \/ visit_direct
  \/ visit_via_search_goto
  \/ search_accept_cookies
  \/ search_type_query
  \/ find_target_link
  \/ click_target_link
  \/ verify_landing
  \/ fallback_navigation
  \/ perform_human_interactions
  \/ human_interaction_loop
  \/ close_context
  \/ close_browser
  \/ stop_playwright
  \/ session_timeout
  \/ run_single_session_finish
  \/ run_bot_append
  \/ run_bot_save
  \/ run_bot_report
  \/ run_bot_interrupt
  \/ run_bot_iter_end
  \/ run_bot_finally

Spec == Init /\ [][Next]_vars

SpecConfig == InitConfig /\ [][Next]_vars

\* a one-session run from any session_duration_max setting
InitDwell ==
  /\ InitBot
  /\ fault_budget = MaxConfigFaults
  /\ Started({"https://target.example/page"})
  /\ config \in [daily_sessions_max : {1},
                  report_frequency : {1},
                  session_duration_min : {1},
                  session_duration_max : 1..MaxStay,
                  max_clicks_per_session : {MaxClicks}]

\* the steps the program takes by itself: every awaited call returns or
\* raises and the clock advances.  The timeout of wait_for and an interrupt
\* of the run are events that may or may not happen.
ProgramStep ==
  \/ load_existing_results
  \/ run_bot_start
  \/ run_bot_loop_head
  \/ execute_session_start_playwright
  \/ launch_browser
  \/ create_browser_context
  \/ get_ip_info
  \/ visit_direct
  \/ visit_via_search_goto
  \/ search_accept_cookies
  \/ search_type_query
  \/ find_target_link
  \/ click_target_link
  \/ verify_landing
  \/ fallback_navigation
  \/ perform_human_interactions
  \/ human_interaction_loop
  \/ close_context
  \/ close_browser
  \/ stop_playwright
  \/ run_single_session_finish
  \/ run_bot_append
  \/ run_bot_save
  \/ run_bot_report
  \/ run_bot_iter_end
  \/ run_bot_finally

SpecFair == InitDwell /\ [][Next]_vars /\ WF_vars(ProgramStep)

\* a run of up to MaxReportFreq + 1 sessions with a report every
\* MaxReportFreq sessions
InitReports ==
  /\ InitBot
  /\ Started({"https://target.example/page"})
  /\ fault_budget = MaxConfigFaults
  /\ config = [daily_sessions_max |-> MaxReportFreq + 1,
               report_frequency |-> MaxReportFreq,
               session_duration_min |-> 1,
               session_duration_max |-> 1,
               max_clicks_per_session |-> MaxClicks]

SpecReports == InitReports /\ [][Next]_vars

\* the record of session n, successful or failed
SessionRecord(n, ok) ==
  [NewResult(n, DIRECT) EXCEPT
     !.url_or_keywords = "https://target.example/page",
     !.target_url_reached = IF ok THEN "https://target.example/page" ELSE None,
     !.success = ok,
     !.failure_reason = IF ok THEN None ELSE ErrNavigation]

\* a record as a version of the bot without target_url_reached saved it
OldFormatRecord(n) ==
  [session_number |-> n, web_route |-> DIRECT,
   url_or_keywords |-> "https://target.example/page", search_engine |-> None,
   time_on_target_url |-> 0, success |-> TRUE, failure_reason |-> None]

\* the records of the results file of an earlier run, old and new ones
PreviousRecords ==
  [i \in 1..MaxPrevRecs |->
     IF i % 2 = 1 THEN OldFormatRecord(i) ELSE SessionRecord(i, FALSE)]

\* results/ holds no file of an earlier run, or one of up to MaxPrevRecs
\* records
PreviousFiles ==
  {NoPreviousFile} \cup
  {[exists |-> TRUE, recs |-> SubSeq(PreviousRecords, 1, k)] :
     k \in 0..MaxPrevRecs}

\* a run started in a directory with any of these files
InitContinue ==
  /\ InitLoop
  /\ NoSideCalls
  /\ previous_file \in PreviousFiles
  /\ Started({"https://target.example/page"})
  /\ fault_budget = MaxConfigFaults
  /\ config = [daily_sessions_max |-> MaxSessions,
               report_frequency |-> MaxReportFreq,
               session_duration_min |-> 1,
               session_duration_max |-> 1,
               max_clicks_per_session |-> MaxClicks]

SpecContinue == InitContinue /\ [][Next]_vars

\* run_bot about to call _save_session_result for session k + 1: the k
\* earlier sessions, of any outcomes, are in the list and in the files
InitSave ==
  \E k \in 0..MaxFileRecs : \E oks \in [1..(k + 1) -> BOOLEAN] :
    LET recs == [i \in 1..k |-> SessionRecord(i, oks[i])]
        res == SessionRecord(k + 1, oks[k + 1])
    IN /\ NoAttempt
       /\ NoSideCalls
       /\ NotAsked
       /\ previous_file = NoPreviousFile
       /\ Started({"https://target.example/page"})
       /\ pc = "save"
       /\ session_num = k + 1
       /\ daily_sessions = k + 1
       /\ override_hours = TRUE
       /\ session_results = Append(recs, res)
       /\ results_file = [exists |-> k > 0, recs |-> recs]
       /\ save_calls = [i \in 1..k |-> i]
       /\ result = res
       /\ summary_file = IF k = 0 THEN NoSummary
                         ELSE SavedSummary(recs, recs[k])
       /\ reports = <<>>
       /\ fault_budget = MaxConfigFaults
       /\ config = [daily_sessions_max |-> k + 1,
                    report_frequency |-> MaxFileRecs + 2,
                    session_duration_min |-> 1,
                    session_duration_max |-> 1,
                    max_clicks_per_session |-> MaxClicks]

\* the call of _save_session_result
NextSave == run_bot_save

SpecSave == InitSave /\ [][NextSave]_vars

\* ------------------------------------------------------------------ start-up
\* what is typed at "Enter new URL: ", stripped
UrlInputs ==
  {"", "new.example/page", "https://new.example/page",
   "https://target.example/page"}

\* "if not new_url.startswith(('http://', 'https://')):
\*      new_url = 'https://' + new_url"
WithScheme(url) ==
  IF url = "new.example/page" THEN "https://new.example/page" ELSE url

\* the elements of a list
Elements(list) == {list[i] : i \in 1..Len(list)}

\* manage.py add_url: appends the URL to the target_urls list of config.json
\* and saves the file; without a loadable config.json, for an empty input,
\* a config without the list (KeyError) or a URL already in it, nothing is
\* added
manage_add_url ==
  /\ spc = "shell"
  /\ added_url = None
  /\ \E input \in UrlInputs :
       LET new_url == WithScheme(input)
       IN IF /\ config_json.state = "json"
             /\ input # ""
             /\ "target_urls" \in config_json.sections
             /\ new_url \notin Elements(config_json.target_urls)
          THEN /\ config_json' =
                    [config_json EXCEPT !.target_urls = Append(@, new_url)]
               /\ added_url' = new_url
          ELSE UNCHANGED <<config_json, added_url>>
  /\ UNCHANGED <<spc, proxies_txt, self_target_urls, self_proxies>>
  /\ UNCHANGED <<bot_vars, pdf_vars, find_vars>>
  /\ UNCHANGED <<prompt_vars, click_vars, search_error_vars, monitor_vars>>

\* __init__: self.config = self._load_config(),
\* self.target_sites = self.config['target_sites'] and self.target_urls.
\* A JSONDecodeError or the KeyError leaves __init__ and ends the process
\* in the handler of the main block.
bot_init_config ==
  /\ spc = "shell"
  /\ LET cfg == LoadedConfig(config_json)
     IN IF cfg.state = "json" /\ "target_sites" \in cfg.sections
        THEN /\ self_target_urls' = cfg.target_sites
             /\ spc' = "init_proxies"
        ELSE /\ spc' = "fatal"
             /\ UNCHANGED self_target_urls
  /\ UNCHANGED <<config_json, proxies_txt, self_proxies, added_url>>
  /\ UNCHANGED <<bot_vars, pdf_vars, find_vars>>
  /\ UNCHANGED <<prompt_vars, click_vars, search_error_vars, monitor_vars>>

\* __init__: self.proxies = self._load_proxies().  For an absent file and
\* for an empty list the handler calls self.logger.error before
\* sys.exit(1); self.logger is not set yet, the AttributeError leaves
\* __init__ and ends the process in the handler of the main block.
bot_init_load_proxies ==
  /\ spc = "init_proxies"
  /\ LET proxy_list == ParsedProxies(proxies_txt.lines)
     IN IF proxies_txt.exists /\ proxy_list # <<>>
        THEN /\ self_proxies' = proxy_list
             /\ spc' = "init_rest"
        ELSE /\ spc' = "fatal"
             /\ UNCHANGED self_proxies
  /\ UNCHANGED <<config_json, proxies_txt, self_target_urls, added_url>>
  /\ UNCHANGED <<bot_vars, pdf_vars, find_vars>>
  /\ UNCHANGED <<prompt_vars, click_vars, search_error_vars, monitor_vars>>

\* the rest of __init__ (directories, logging), then the main block calls
\* asyncio.run(bot.run_bot())
bot_init_rest ==
  /\ spc = "init_rest"
  /\ spc' = "run_bot"
  /\ UNCHANGED <<config_json, proxies_txt, self_target_urls, self_proxies,
                 added_url>>
  /\ UNCHANGED <<bot_vars, pdf_vars, find_vars>>
  /\ UNCHANGED <<prompt_vars, click_vars, search_error_vars, monitor_vars>>

\* the shell before bot.py is started, with any config.json and proxies.txt
InitStartup ==
  /\ InitBot
  /\ InitSettings
  /\ spc = "shell"
  /\ config_json \in ConfigFiles
  /\ proxies_txt \in ProxyFiles(MaxStartupLines, MaxLineLen)
  /\ self_target_urls = {}
  /\ self_proxies = <<>>
  /\ added_url = None

NextStartup ==
  \/ manage_add_url
  \/ bot_init_config
  \/ bot_init_load_proxies
  \/ bot_init_rest

SpecStartup == InitStartup /\ [][NextStartup]_vars

\* the shell before bot.py is started, config.json absent or holding the
\* sections and the five weights bot.py reads
InitDefaults ==
  /\ InitBot
  /\ InitSettings
  /\ spc = "shell"
  /\ config_json \in {NoConfigFile,
                      BotConfigFile({"https://target.example/page"})}
  /\ proxies_txt = OneProxyFile
  /\ self_target_urls = {}
  /\ self_proxies = <<>>
  /\ added_url = None

\* __init__ followed by run_bot
NextDefaults ==
  \/ bot_init_config
  \/ bot_init_load_proxies
  \/ bot_init_rest
  \/ Next

SpecDefaults == InitDefaults /\ [][NextDefaults]_vars

\* __init__ about to call _load_proxies, with any proxies.txt
InitProxies ==
  /\ InitBot
  /\ InitSettings
  /\ spc = "init_proxies"
  /\ config_json = BotConfigFile({"https://target.example/page"})
  /\ proxies_txt \in ProxyFiles(MaxLines, MaxLineLen)
  /\ self_target_urls = {"https://target.example/page"}
  /\ self_proxies = <<>>
  /\ added_url = None

NextProxies == bot_init_load_proxies

SpecProxies == InitProxies /\ [][NextProxies]_vars

\* a call of _generate_pdf_report taken by itself
generate_pdf_report ==
  /\ pdf_result = Pending
  /\ \E lib_ok \in BOOLEAN :
       pdf_result' = GeneratePdfReport(pdf_call.report_sessions,
                                       pdf_call.start_session, lib_ok)
  /\ UNCHANGED <<pdf_call, bot_vars, startup_vars, find_vars>>
  /\ UNCHANGED <<prompt_vars, click_vars, search_error_vars, monitor_vars>>

\* _generate_pdf_report called with any batch of up to MaxBatch records
\* numbered from start_session on
InitPdf ==
  /\ InitLoop
  /\ previous_file = NoPreviousFile
  /\ Started({"https://target.example/page"})
  /\ InitSettings
  /\ \E k \in 0..MaxBatch, start \in 1..MaxBatch :
       \E oks \in [1..k -> BOOLEAN] :
         pdf_call = [report_sessions |->
                       [i \in 1..k |-> SessionRecord(start + i - 1, oks[i])],
                     start_session |-> start]
  /\ pdf_result = Pending
  /\ find_page = <<>>
  /\ find_outcome = Pending
  /\ NoClickCall
  /\ NoSearchError
  /\ NoMonitor

NextPdf == generate_pdf_report

SpecPdf == InitPdf /\ [][NextPdf]_vars

\* ----------------------------------- _find_and_click_target_link: the search
search_domain == "target.example"
engine_domain == "engine.example"
engine_name == "DuckDuckGo"

\* what an href holds besides its start: nothing, the engine's domain, a
\* search path in lower or mixed case, a cache or a translate marker
HrefExtras == {"", engine_domain, "/search?", "/Search?", "cache:", "translate."}

\* the hrefs of a results page: how they start, whether search_domain
\* follows the start, and what else they hold
Hrefs ==
  [prefix : {"https://", "https://www."}, domain : BOOLEAN, extra : HrefExtras]

\* an anchor: is_visible(), inside an h2 / h3 heading, its href
Anchors == [visible : BOOLEAN, header : BOOLEAN, href : Hrefs]

\* the results pages of up to n anchors
Pages(n) == UNION {[1..k -> Anchors] : k \in 0..n}

\* href.lower(), on the part of the href that has upper case
Lower(extra) == IF extra = "/Search?" THEN "/search?" ELSE extra

\* [engine_domain, '/search?', 'cache:', 'translate.']
EngineTerms == {engine_domain, "/search?", "cache:", "translate."}

\* any(engine_term in href.lower() for engine_term in [...])
HasEngineTerm(href) == Lower(href.extra) \in EngineTerms

\* variant: an href with the domain is taken whatever else it holds
AcceptableAnyHref(link) == link.visible /\ link.href.domain

\* "if await link.is_visible()" and "if (href and search_domain in href and
\* not any(...))"
Acceptable(link) ==
  /\ link.visible
  /\ link.href.domain
  /\ ~HasEngineTerm(link.href)

\* the six CSS selectors, in the order of the list
Selectors == 1..6

\* the anchor is among page.query_selector_all(selector)
SelectorMatches(sel, link) ==
  /\ link.href.domain
  /\ CASE sel = 1 -> TRUE
       [] sel = 2 -> link.header
       [] sel = 3 -> link.href.prefix = "https://"
       [] sel = 4 -> link.href.prefix = "http://"
       [] sel = 5 -> link.href.prefix = "https://www."
       [] sel = 6 -> link.href.extra # engine_domain

\* "for link in links": the first acceptable anchor of the selector's
\* result from position i on, 0 when there is none
RECURSIVE FirstAcceptable(_, _, _)
FirstAcceptable(page, sel, i) ==
  IF i > Len(page) THEN 0
  ELSE IF SelectorMatches(sel, page[i]) /\ Acceptable(page[i]) THEN i
  ELSE FirstAcceptable(page, sel, i + 1)

\* "for selector in selectors": link_found, 0 for None
RECURSIVE LinkFound(_, _)
LinkFound(page, sel) ==
  IF sel \notin Selectors THEN 0
  ELSE LET found == FirstAcceptable(page, sel, 1)
       IN IF found # 0 THEN found ELSE LinkFound(page, sel + 1)

\* the handler at the end of _find_and_click_target_link re-raises the
\* exception as it is when its text holds "not found in search results";
\* the text raised has the engine's name between "in" and "search"
ReraisedAsIs == engine_name = ""

\* the search for the link: link_found is clicked, or the not-found
\* exception is raised (and wrapped by the handler)
find_target_link_search ==
  /\ find_outcome = Pending
  /\ LET found == LinkFound(find_page, 1)
     IN find_outcome' =
          IF found # 0
          THEN [returned |-> "found", clicked |-> found, raised |-> NoExc,
                wrapped |-> FALSE]
          ELSE [returned |-> "raised", clicked |-> 0,
                raised |-> ErrLinkNotFound, wrapped |-> ~ReraisedAsIs]
  /\ UNCHANGED <<find_page, bot_vars, startup_vars, pdf_vars>>
  /\ UNCHANGED <<prompt_vars, click_vars, search_error_vars, monitor_vars>>

\* _find_and_click_target_link called on any results page
InitFind ==
  /\ InitLoop
  /\ previous_file = NoPreviousFile
  /\ Started({"https://target.example/page"})
  /\ InitSettings
  /\ pdf_call = [report_sessions |-> <<>>, start_session |-> 1]
  /\ pdf_result = Pending
  /\ find_page \in Pages(MaxLinks)
  /\ find_outcome = Pending
  /\ NoClickCall
  /\ NoSearchError
  /\ NoMonitor

NextFind == find_target_link_search

SpecFind == InitFind /\ [][NextFind]_vars

\* ------------------------------------------------------------ _random_clicks
\* the addresses a click can lead to: the page the session is on, another
\* page of the site and a page of another site
ClickUrls ==
  {"https://target.example/page", "https://target.example/contact",
   "https://other.example/"}

\* variant: every change of address is recorded
UrlChanged(new_url, current_url, visited) == new_url # current_url

\* "if new_url != current_url and new_url not in visited_urls"
NewlyVisited(new_url, current_url, visited) ==
  /\ new_url # current_url
  /\ \A i \in 1..Len(visited) : visited[i] # new_url

\* everything but the call of _random_clicks
not_click_vars ==
  <<bot_vars, prompt_vars, startup_vars, pdf_vars, find_vars,
    search_error_vars, monitor_vars>>

\* clicks = 0, visited_urls = [], max_clicks = random.randint(0,
\* max_clicks_per_session)
random_clicks_begin ==
  /\ cpc = "call"
  /\ \E m \in 0..config.max_clicks_per_session : max_clicks' = m
  /\ clicks' = 0
  /\ visited_urls' = <<>>
  /\ click_round' = 0
  /\ cpc' = "loop"
  /\ UNCHANGED <<page_url, click_record>>
  /\ UNCHANGED not_click_vars

\* one iteration of "for _ in range(max_clicks)": no selector has a visible
\* element, or a call before the click or the click itself raises (the
\* handler of the iteration continues with the next one), or an element is
\* clicked and the address of the page is compared with the one before
random_clicks_iteration ==
  /\ cpc = "loop"
  /\ click_round < max_clicks
  /\ click_round' = click_round + 1
  /\ \E outcome \in {"nothing_visible", "raised", "clicked"},
        new_url \in ClickUrls :
       IF outcome = "clicked"
       THEN /\ clicks' = clicks + 1
            /\ page_url' = new_url
            /\ visited_urls' =
                 IF NewlyVisited(new_url, page_url, visited_urls)
                 THEN Append(visited_urls, new_url)
                 ELSE visited_urls
       ELSE UNCHANGED <<clicks, page_url, visited_urls>>
  /\ UNCHANGED <<cpc, max_clicks, click_record>>
  /\ UNCHANGED not_click_vars

\* "return clicks, visited_urls" and the two assignments of
\* _perform_human_interactions
random_clicks_return ==
  /\ cpc = "loop"
  /\ click_round = max_clicks
  /\ click_record' = [clicks |-> clicks, other_urls_visited |-> visited_urls]
  /\ cpc' = "returned"
  /\ UNCHANGED <<max_clicks, click_round, clicks, visited_urls, page_url>>
  /\ UNCHANGED not_click_vars

\* the session timeout cancels the coroutine inside _random_clicks, whose
\* handlers catch Exception only: the record keeps what it had
random_clicks_cancelled ==
  /\ cpc = "loop"
  /\ cpc' = "cancelled"
  /\ UNCHANGED <<max_clicks, click_round, clicks, visited_urls, page_url,
                 click_record>>
  /\ UNCHANGED not_click_vars

\* _perform_human_interactions about to call _random_clicks on the page of
\* the destination, from any max_clicks_per_session setting
InitClicks ==
  /\ InitLoop
  /\ previous_file = NoPreviousFile
  /\ Started({"https://target.example/page"})
  /\ fault_budget = MaxFaults
  /\ config \in [daily_sessions_max : {MaxSessions},
                  report_frequency : {MaxReportFreq},
                  session_duration_min : {1},
                  session_duration_max : {1},
                  max_clicks_per_session : 0..MaxClicks]
  /\ NoReportOrFindCall
  /\ NoSearchError
  /\ NoMonitor
  /\ cpc = "call"
  /\ max_clicks = 0
  /\ click_round = 0
  /\ clicks = 0
  /\ visited_urls = <<>>
  /\ page_url = "https://target.example/page"
  /\ click_record = NoClicks

NextClicks ==
  \/ random_clicks_begin
  \/ random_clicks_iteration
  \/ random_clicks_return
  \/ random_clicks_cancelled

SpecClicks == InitClicks /\ [][NextClicks]_vars

\* ------------------------- _execute_session: the handler of a failed search
\* A text is a sequence of pieces; "x in text" for the pieces looked for is
\* the presence of the piece.
\* engine_name as _search_duckduckgo, _search_bing and _search_yahoo pass it
EngineName(engine) ==
  CASE engine = "duckduckgo" -> "DuckDuckGo"
    [] engine = "bing" -> "Bing"
    [] engine = "yahoo" -> "Yahoo"

\* what a keyword of config.json is made of: a word, an apostrophe, the
\* name of a search engine
KeywordPieces == {"word", "'", "DuckDuckGo", "Bing", "Yahoo"}

Keywords(n) == UNION {[1..k -> KeywordPieces] : k \in 1..n}

\* search_query = f"{keyword} {search_domain}"
SearchQueryOf(keyword) == keyword \o <<" ", search_domain>>

\* f"Target domain '{search_domain}' not found in {engine_name} search
\* results for query: '{search_query}'"
NotFoundText(name, query) ==
  <<"Target domain '", search_domain, "' not found in ", name,
    " search results for query: '">> \o query \o <<"'">>

\* f"Failed to click target link for '{search_domain}': {str(e)}"
ClickFailedText(text) ==
  <<"Failed to click target link for '", search_domain, "': ">> \o text

\* str(search_error) for a search that found no link: the handler of
\* _find_and_click_target_link wraps the exception it raised
SearchErrorText(name, query) == ClickFailedText(NotFoundText(name, query))

Contains(text, piece) == \E p \in 1..Len(text) : text[p] = piece

\* re.search(r"for query: '([^']+)'", error_msg): group(1), or <<>> for no
\* match. The text matched by "for query: '" ends the piece before the
\* query; the group takes what follows up to the next apostrophe and has to
\* be non-empty.
QueryMatch(text) ==
  LET starts == {p \in 1..Len(text) : text[p] = " search results for query: '"}
  IN IF starts = {} THEN <<>>
     ELSE LET p == CHOOSE q \in starts : \A r \in starts : q <= r
              apostrophes == {q \in (p + 1)..Len(text) : text[q] = "'"}
          IN IF apostrophes = {} THEN <<>>
             ELSE SubSeq(text, p + 1,
                         (CHOOSE q \in apostrophes :
                            \A r \in apostrophes : q <= r) - 1)

SearchFailed == <<"Search failed">>

\* "except Exception as search_error": url_or_keywords and search_engine
\* are read back from the text of the exception
SearchErrorFields(error_msg) ==
  IF Contains(error_msg, " search results for query: '")
  THEN [url_or_keywords |->
          IF QueryMatch(error_msg) # <<>> THEN QueryMatch(error_msg)
          ELSE SearchFailed,
        search_engine |->
          IF Contains(error_msg, "DuckDuckGo") THEN "duckduckgo"
          ELSE IF Contains(error_msg, "Bing") THEN "bing"
          ELSE IF Contains(error_msg, "Yahoo") THEN "yahoo"
          ELSE "unknown"]
  ELSE [url_or_keywords |-> SearchFailed, search_engine |-> "unknown"]

\* _visit_via_search raises for a results page without a matching link and
\* the handler of _execute_session fills the record
execute_session_search_error ==
  /\ error_record = Pending
  /\ LET fields == SearchErrorFields(
                     SearchErrorText(EngineName(engine_selected),
                                     search_query_typed))
     IN error_record' =
          [returned |-> "raised",
           url_or_keywords |-> fields.url_or_keywords,
           search_engine |-> fields.search_engine]
  /\ UNCHANGED <<search_query_typed, engine_selected>>
  /\ UNCHANGED <<bot_vars, prompt_vars, startup_vars, pdf_vars, find_vars,
                 click_vars, monitor_vars>>

\* a search-route attempt with any keyword and any engine, the query typed
InitSearchError ==
  /\ InitLoop
  /\ previous_file = NoPreviousFile
  /\ Started({"https://target.example/page"})
  /\ InitSettings
  /\ NoReportOrFindCall
  /\ NoClickCall
  /\ NoMonitor
  /\ \E keyword \in Keywords(MaxKeywordLen) :
       search_query_typed = SearchQueryOf(keyword)
  /\ engine_selected \in search_engines
  /\ error_record = Pending

NextSearchError == execute_session_search_error

SpecSearchError == InitSearchError /\ [][NextSearchError]_vars

\* ==================================================================== claims

\* ---- C1 ----
\* C1 (as claimed): a session is recorded as failed for a cause other than
\* link-not-found only after the 3rd failed attempt; before that another
\* attempt is made.
C1_RetriedUntilCap ==
  (apc = "returned" /\ ~result.success /\ ~link_not_found
     /\ result.failure_reason # ErrLinkNotFound)
    => attempt + 1 = max_proxy_attempts

\* ---- C2 ----
\* C2: a session whose search step ended with link-not-found is never
\* retried: one attempt, one browser launch, and the returned record has
\* success = false.
C2_LinkNotFoundNotRetried ==
  link_not_found =>
    /\ attempt = 0
    /\ launches = 1
    /\ (apc = "returned" => ~result.success)

C2_Witness ==
  /\ apc = "returned"
  /\ link_not_found
  /\ result.failure_reason = ErrLinkNotFound
  /\ launches = 1

\* ---- C3 ----
\* C3: the number of attempts and of browser launches of one session never
\* exceeds the cap of 3.
C3_AttemptCap ==
  /\ launches <= max_proxy_attempts
  /\ attempt + 1 <= max_proxy_attempts

C3_Witness ==
  /\ apc = "returned"
  /\ raised
  /\ ~result.success
  /\ launches = 1

\* ---- C4 ----
\* C4: a failure raised while a session executes ends in a record with
\* success = false and a failure reason, and never reaches run_bot, whose
\* loop goes on to the next session number.
C4_FailuresCaught ==
  /\ ~run_error
  /\ (apc = "returned" /\ raised)
       => (~result.success /\ result.failure_reason # None)

C4_Witness ==
  /\ pc = "session"
  /\ session_num = 2
  /\ Len(session_results) = 1
  /\ session_results[1].failure_reason = ErrClose

\* ---- C5 ----
\* C5 (as claimed): every call of _save_session_result leaves the results
\* file with the records it held before, unchanged and in order, followed by
\* the new record.
C5_AppendOnly ==
  [][pc = "save" /\ pc' = "report" =>
       results_file'.recs = Append(results_file.recs, result)]_vars

\* ---- C6 ----
\* C6 (as claimed): in every returned record web_route is direct or search
\* and search_engine is non-null exactly when web_route is search.
C6_RouteEngine ==
  apc = "returned" =>
    /\ result.web_route \in VisitMode
    /\ (result.search_engine # None <=> result.web_route = SEARCH)

\* ---- C7 ----
\* C7 (as claimed): when an attempt has ended every driver, browser and
\* context handle it opened is closed, so at most one browser is ever open.
C7_HandlesClosed ==
  /\ apc \in {"wait_for", "returned", "idle"}
       => open_handles = [drivers |-> 0, browsers |-> 0, contexts |-> 0]
  /\ open_handles.browsers <= 1

\* ---- C8 ----
\* C8 (as claimed): when the session timeout fired during an attempt, the
\* returned record has success = false and the timeout as failure_reason.
C8_TimeoutRecorded ==
  (apc = "returned" /\ timed_out)
    => (~result.success /\ result.failure_reason = ErrTimeout)

\* ---- C9 ----
\* C9: while a session is in progress (a proxy chosen, an attempt running or
\* its record not yet taken by run_bot) it is session number session_num and
\* every earlier session has been returned, appended and handed to
\* _save_session_result.
C9_Sequential ==
  (apc # "idle" \/ proxy # None) =>
    /\ pc = "session"
    /\ result.session_number = session_num
    /\ Len(session_results) = session_num - 1
    /\ save_calls = [i \in 1..(session_num - 1) |-> i]

C9_Witness ==
  /\ session_num = 2
  /\ apc = "context"
  /\ Len(save_calls) = 1

\* ---- C10 ----
\* C10: after the iteration for session k the in-memory list holds exactly k
\* records numbered 1..k in order, each handed to _save_session_result
\* exactly once, and a record in the list is never changed afterwards.
C10_AfterIteration ==
  pc = "iter_end" =>
    /\ Len(session_results) = session_num
    /\ \A i \in 1..Len(session_results) :
         session_results[i].session_number = i
    /\ save_calls = [i \in 1..session_num |-> i]

C10_NeverModified ==
  /\ Len(session_results') >= Len(session_results)
  /\ \A i \in 1..Len(session_results) : session_results'[i] = session_results[i]

C10_OneRecordPerSession == []C10_AfterIteration /\ [][C10_NeverModified]_vars

C10_Witness ==
  /\ pc = "iter_end"
  /\ session_num = 2
  /\ Len(session_results) = 2

\* ---- C11 ----
\* position i of self.session_results is in the batch of some call of
\* _generate_pdf_report
InSomeReport(i) ==
  \E r \in 1..Len(reports) :
    /\ reports[r].start_session <= i
    /\ i < reports[r].start_session + reports[r].count

\* C11 (as claimed): when an exception or interrupt ended run_bot's loop
\* after at least one session was recorded, the report calls made up to the
\* end of the finally block cover every recorded session.
C11_FinalReportCovers ==
  (pc = "done" /\ interrupted /\ Len(session_results) >= 1) =>
    \A i \in 1..Len(session_results) : InSomeReport(i)

\* ---- C12 ----
\* the record of the current session is the last one of the list / the file
Recorded(recs) ==
  /\ recs # <<>>
  /\ recs[Len(recs)].session_number = session_num

\* the dwell loop is left only when the clock has passed the sampled dwell
\* or the timeout has cancelled it
C12_LoopExit ==
  (apc = "dwell" /\ apc' # "dwell") => (elapsed >= stay_time \/ timed_out')

C13_SummaryConsistent ==
  summary_file.exists =>
    LET recs == results_file.recs
        total == Len(recs)
        successful == Cardinality({i \in 1..total : recs[i].success})
        rate == summary_file.success_rate_percent
        diff == rate * total - 1000 * successful
    IN /\ total > 0
       /\ summary_file.total_sessions_completed = total
       /\ summary_file.successful_sessions = successful
       /\ summary_file.failed_sessions = total - successful
       /\ 2 * diff <= total
       /\ -2 * diff <= total
       /\ summary_file.latest_session = recs[total]

\* 7 successful sessions of 10 give 70.0
C13_Witness ==
  /\ pc = "report"
  /\ Len(results_file.recs) = 10
  /\ summary_file.total_sessions_completed = 10
  /\ summary_file.successful_sessions = 7
  /\ summary_file.failed_sessions = 3
  /\ summary_file.success_rate_percent = 700

\* ---- C14 ----
\* the k-th colon-separated field exists: the line has k - 1 colons
ColonPositions(line) == {p \in 1..Len(line) : line[p] = ":"}

HasFourFields(line) == Cardinality(ColonPositions(line)) >= 3

\* proxies.txt exists and has a line with at least four fields
HasProxyLine ==
  /\ proxies_txt.exists
  /\ \E i \in 1..Len(proxies_txt.lines) : HasFourFields(proxies_txt.lines[i])

StartupOver == spc \in {"fatal", "run_bot"}

Trimmed(line) ==
  LET ink == {p \in 1..Len(line) : line[p] \notin Whitespace}
  IN IF ink = {} THEN <<>>
     ELSE SubSeq(line, CHOOSE p \in ink : \A q \in ink : p <= q,
                       CHOOSE p \in ink : \A q \in ink : q <= p)

\* position of the k-th colon of the line; 0 for k = 0 and the position
\* after the line when it has fewer colons
NthColon(line, k) ==
  IF k = 0 THEN 0
  ELSE IF Cardinality(ColonPositions(line)) < k THEN Len(line) + 1
  ELSE CHOOSE p \in ColonPositions(line) :
         Cardinality({q \in ColonPositions(line) : q < p}) = k - 1

\* the k-th colon-separated field of the line
Field(line, k) ==
  SubSeq(line, NthColon(line, k - 1) + 1, NthColon(line, k) - 1)

\* C15: the list _load_proxies returns has one record for every line with
\* at least four colon-separated fields, in file order, made of the first
\* four fields of the line (taken without its surrounding white space);
\* blank and shorter lines contribute nothing.
C15_LoadedProxies ==
  spc = "init_rest" =>
    LET lines == proxies_txt.lines
        valid == {i \in 1..Len(lines) : HasFourFields(lines[i])}
    IN /\ Len(self_proxies) = Cardinality(valid)
       /\ \A i \in valid :
            LET j == Cardinality({i2 \in valid : i2 <= i})
                t == Trimmed(lines[i])
            IN self_proxies[j] =
                 [host |-> Field(t, 1), port |-> Field(t, 2),
                  username |-> Field(t, 3), password |-> Field(t, 4)]

\* a short line is skipped and the record of the second line, which has
\* five fields, is made of its first four
C15_Witness ==
  /\ spc = "init_rest"
  /\ Len(proxies_txt.lines) = 2
  /\ ~HasFourFields(proxies_txt.lines[1])
  /\ proxies_txt.lines[1] # <<>>
  /\ Cardinality(ColonPositions(proxies_txt.lines[2])) = 4
  /\ Len(self_proxies) = 1

\* ---- C16 ----
\* config.json has the sections manage.py and test_setup.py require
AcceptedByManage ==
  /\ config_json.state = "json"
  /\ ManageSections \subseteq config_json.sections

\* C16 (as claimed): a URL add_url reported as added is among
\* self.target_urls once the bot has started, and the bot starts with every
\* config.json manage.py and test_setup.py accept (given a usable
\* proxies.txt).
C16_SharedDestinations ==
  /\ (spc = "run_bot" /\ added_url # None) => added_url \in self_target_urls
  /\ (AcceptedByManage /\ HasProxyLine) => spc # "fatal"

\* ---- C17 ----
\* the destination fields of a direct-route record
DirectRecordOk(r) ==
  r.web_route = DIRECT =>
    \/ r.target_url_reached = None
    \/ /\ r.target_url_reached \in target_urls
       /\ r.target_url_reached = r.url_or_keywords

\* C17: for every non-empty destination set, what _visit_direct returned is
\* a member of the set, and every direct-route record (the one being
\* built, the recorded and the saved ones) has target_url_reached null or
\* a member of the set equal to url_or_keywords.
C17_DirectDestination ==
  /\ target_urls # {}
  /\ DirectRecordOk(result)
  /\ \A i \in 1..Len(session_results) : DirectRecordOk(session_results[i])
  /\ \A i \in 1..Len(results_file.recs) : DirectRecordOk(results_file.recs[i])

C17_Witness ==
  /\ target_urls = TargetSites
  /\ Len(session_results) = 2
  /\ session_results[1].web_route = DIRECT
  /\ session_results[1].target_url_reached = "https://target.example/other"
  /\ session_results[2].web_route = DIRECT
  /\ session_results[2].target_url_reached = None

\* ---- C18 ----
\* C18: a call of _generate_pdf_report raises nothing and returns True or
\* False, True exactly when the report was written; for an empty batch the
\* rate is computed without a division, the call fails only when the
\* library does, and the report written states 0 total sessions and a
\* success rate of 0%.
C18_ReportNeverRaises ==
  pdf_result # Pending =>
    /\ pdf_result.raised = NoExc
    /\ pdf_result.returned \in {"True", "False"}
    /\ pdf_result.returned = "True" <=> pdf_result.report # NoReport
    /\ pdf_result.returned = "True" <=> pdf_result.lib_ok
    /\ (pdf_call.report_sessions = <<>> /\ pdf_result.returned = "True") =>
         /\ pdf_result.report.total = 0
         /\ pdf_result.report.rate =
              [error |-> NoExc, tenths |-> 0, decimals |-> 0]

C18_Witness ==
  /\ pdf_call.report_sessions = <<>>
  /\ pdf_result # Pending
  /\ pdf_result.returned = "True"
  /\ pdf_result.report.total = 0

\* ---- C19 ----
\* the anchors of the page the claim describes: visible, href with the
\* destination domain and, in lower case, without an engine marker
Clickable(page) ==
  {i \in 1..Len(page) :
     /\ page[i].visible
     /\ page[i].href.domain
     /\ Lower(page[i].href.extra) \notin EngineTerms}

\* C19: the anchor clicked is the first one, in page order (which is the
\* order of the first selector's result; the later selectors match no
\* other anchors), that is visible and whose href holds the destination
\* domain and none of the engine markers; when the page has none, nothing
\* is clicked and the link-not-found exception is raised.
C19_FirstMatchingLink ==
  find_outcome # Pending =>
    IF Clickable(find_page) # {}
    THEN /\ find_outcome.raised = NoExc
         /\ find_outcome.clicked \in Clickable(find_page)
         /\ \A i \in Clickable(find_page) : find_outcome.clicked <= i
    ELSE /\ find_outcome.clicked = 0
         /\ find_outcome.raised = ErrLinkNotFound

\* the first anchor is visible and holds the domain but also a marker, the
\* second one is clicked
C19_Witness ==
  /\ find_outcome # Pending
  /\ Len(find_page) = 2
  /\ find_page[1].visible
  /\ find_page[1].href.domain
  /\ find_page[1].href.extra = "cache:"
  /\ find_outcome.clicked = 2

\* ---- C20 ----
\* C20 (as claimed): when the wait loop after the click ends with a landed
\* URL that fails the verification (it lacks the destination domain or
\* holds the engine's domain), the fallback navigation to the captured href
\* is performed next.
C20_FallbackOnFailedVerification ==
  [][(apc = "verify" /\ apc' # "verify" /\ ~Verified(landed')) =>
       apc' = "fallback"]_vars


\* ---- C21 ----
\* the reports whose batch holds position i of self.session_results
ReportsOf(i) ==
  {r \in 1..Len(reports) :
     /\ reports[r].start_session <= i
     /\ i < reports[r].start_session + reports[r].count}

\* the loop was left by exhaustion or by the hours check and every call of
\* _generate_pdf_report returned True
NormalRun ==
  /\ pc = "done"
  /\ ~interrupted
  /\ ~run_error
  /\ \A r \in 1..Len(reports) : reports[r].produced

\* C21: after the iteration for a session there is one report call for
\* every full group of report_frequency recorded sessions, each of exactly
\* report_frequency sessions; at the end of a normal run every recorded
\* session is in exactly one report, the last report covers exactly the
\* (count mod report_frequency) remaining sessions, and the numbers
\* start..end of every report name are the session_number values of its
\* batch.
C21_OneReportPerSession ==
  LET n == Len(session_results)
      freq == config.report_frequency
      full == n \div freq
  IN /\ pc = "iter_end" =>
          /\ Len(reports) = full
          /\ \A r \in 1..full :
               /\ reports[r].count = freq
               /\ reports[r].start_session = (r - 1) * freq + 1
     /\ NormalRun =>
          /\ \A i \in 1..n : Cardinality(ReportsOf(i)) = 1
          /\ Len(reports) = full + (IF n % freq # 0 THEN 1 ELSE 0)
          /\ \A r \in 1..full : reports[r].count = freq
          /\ n % freq # 0 =>
               /\ reports[Len(reports)].count = n % freq
               /\ reports[Len(reports)].start_session = n - (n % freq) + 1
          /\ \A r \in 1..Len(reports) :
               reports[r].numbers =
                 [i \in 1..reports[r].count |->
                    reports[r].start_session + i - 1]

\* a periodic report of MaxReportFreq sessions and a final report of one
C21_Witness ==
  /\ NormalRun
  /\ config.report_frequency = MaxReportFreq
  /\ Len(session_results) = MaxReportFreq + 1
  /\ Len(reports) = 2
  /\ reports[1].count = MaxReportFreq
  /\ reports[2].count = 1
  /\ reports[2].numbers = <<MaxReportFreq + 1>>


\* ---- C22 ----
\* C22: the click fields of a session record, before and after
\* _random_clicks has returned, satisfy 0 <= clicks <=
\* max_clicks_per_session, other_urls_visited holds no address twice and
\* has at most clicks entries.
C22_ClickBounds ==
  LET urls == click_record.other_urls_visited
  IN /\ click_record.clicks \in 0..config.max_clicks_per_session
     /\ \A i, j \in 1..Len(urls) : urls[i] = urls[j] => i = j
     /\ Len(urls) <= click_record.clicks

\* three clicks that led to two different addresses, the third one to an
\* address already recorded
C22_Witness ==
  /\ cpc = "returned"
  /\ click_record.clicks = 3
  /\ Len(click_record.other_urls_visited) = 2
  /\ page_url = click_record.other_urls_visited[1]


\* ---- C23 ----
\* C23 (as claimed): after a search that found no matching link the record
\* has the engine that was selected as search_engine and the complete
\* query that was typed as url_or_keywords, whatever the query holds.
C23_FailedSearchRecorded ==
  error_record # Pending =>
    /\ error_record.search_engine = engine_selected
    /\ error_record.url_or_keywords = search_query_typed


\* ---- C24 ----
\* the last answer typed at the prompt of _load_existing_results
Answered(answer) ==
  /\ continue_answers # <<>>
  /\ continue_answers[Len(continue_answers)] = answer

IsPrefix(p, q) == Len(p) <= Len(q) /\ SubSeq(q, 1, Len(p)) = p

\* C24 (as claimed): after the answer Y this run's results file starts
\* with all previous records in their order (with target_url_reached
\* filled in where it was missing), whatever is saved later; after the
\* answer N it holds only records of this run; after any other answer
\* nothing is written and the prompt is still open.
C24_ContinueOrFresh ==
  /\ Answered("Y") =>
       /\ results_file.exists
       /\ IsPrefix(UpdatedData(previous_file.recs), results_file.recs)
  /\ Answered("N") =>
       \A i \in 1..Len(results_file.recs) :
         \E j \in 1..Len(session_results) :
           session_results[j] = results_file.recs[i]
  /\ Answered("maybe") =>
       /\ pc = "start"
       /\ ~results_file.exists
       /\ ~summary_file.exists


\* ---- C25 ----
\* success and failure_reason of a record agree
SuccessIffNoReason(r) == r.success <=> r.failure_reason = None

\* success is set only when the dwell loop of _perform_human_interactions
\* is left after the sampled time, on a record without a failure reason
C25_SetAfterInteractions ==
  (~result.success /\ result'.success) =>
    /\ apc = "dwell"
    /\ elapsed >= stay_time
    /\ result.failure_reason = None
    /\ ~raised

\* C25: in every record _run_single_session returns (and run_bot keeps)
\* success is true exactly when failure_reason is null; success becomes
\* true only at the end of the interaction phase of an attempt in which
\* nothing was raised before, and a record returned with success = true
\* comes from an attempt in which nothing was raised at all, the closes
\* of the finally block included.
C25_SuccessIffNoFailure ==
  /\ [](/\ apc = "returned" =>
            /\ SuccessIffNoReason(result)
            /\ result.success => ~raised
        /\ \A i \in 1..Len(session_results) :
             SuccessIffNoReason(session_results[i]))
  /\ [][C25_SetAfterInteractions]_vars

\* a session whose close failed after the interactions is recorded as
\* failed, the next one is returned as successful
C25_Witness ==
  /\ session_num = 2
  /\ session_results[1].failure_reason = ErrClose
  /\ session_results[1].target_url_reached # None
  /\ apc = "returned"
  /\ result.success
  /\ result.failure_reason = None


\* ---- C26 ----
\* a successful search-route record names an address on the destination's
\* domain
ReachedDestination(r) ==
  (r.web_route = SEARCH /\ r.success) =>
    /\ ContainsTarget(r.target_url_reached)
    /\ ~ContainsEngine(r.target_url_reached)

\* C26 (as claimed): in every search-route record with success = true,
\* returned or kept by run_bot, target_url_reached holds the destination
\* domain and not the search engine's domain.
C26_SuccessOnDestination ==
  /\ apc = "returned" => ReachedDestination(result)
  /\ \A i \in 1..Len(session_results) : ReachedDestination(session_results[i])


\* ----------------------------------------------------------------- monitor.py
\* monitor.py is a separate process: its reads of the two files interleave
\* with the steps of _save_session_result.  open(..., 'w') truncates the
\* file; until json.dump has finished and the file is closed the file holds
\* a proper prefix of the JSON text, which json.load rejects.  While
\* save_pc = "results_open" the results file on disk is such a prefix and
\* results_file still holds the list the save loaded before it; while
\* save_pc = "summary_open" the same is true of the summary file.

\* results_dir.glob("session_results_*.json") finds the file
ResultsOnDisk == results_file.exists \/ save_pc = "results_open"

\* results_dir.glob("session_summary_*.json") finds the file
SummaryOnDisk == summary_file.exists \/ save_pc = "summary_open"

\* what the save leaves alone
SaveUnchanged ==
  /\ UNCHANGED <<session_num, daily_sessions, override_hours, session_results,
                 run_error, attempt, launches, apc, proxy, visit_mode, result,
                 playwright, browser, context, open_handles, timed_out, exc,
                 raised, link_not_found, selected_engine, landed>>
  /\ UNCHANGED <<config, fault_budget, reports, interrupted, stay_time, elapsed>>
  /\ UNCHANGED <<startup_vars, pdf_vars, find_vars, click_vars,
                 search_error_vars, prompt_vars>>
  /\ UNCHANGED <<mon_pc, mon_summary, mon_results>>

\* _save_session_result: the existing results are loaded, the record is
\* appended, and "with open(self.results_file, 'w')" truncates the file
save_open_results ==
  /\ pc = "save"
  /\ save_pc = "idle"
  /\ save_pc' = "results_open"
  /\ UNCHANGED <<pc, results_file, summary_file, save_calls, faults>>
  /\ SaveUnchanged

\* json.dump(all_results, f) is complete and the file is closed
save_write_results ==
  /\ save_pc = "results_open"
  /\ \E read_ok \in BOOLEAN :
       /\ IF read_ok THEN NoFault ELSE Fault
       /\ results_file' = SavedFile(results_file, result, read_ok)
  /\ save_pc' = "results_written"
  /\ UNCHANGED <<pc, summary_file, save_calls>>
  /\ SaveUnchanged

\* the summary is computed and "with open(self.summary_file, 'w')"
\* truncates the file
save_open_summary ==
  /\ save_pc = "results_written"
  /\ save_pc' = "summary_open"
  /\ UNCHANGED <<pc, results_file, summary_file, save_calls, faults>>
  /\ SaveUnchanged

\* json.dump(summary, f) is complete, the file is closed and
\* _save_session_result returns
save_write_summary ==
  /\ save_pc = "summary_open"
  /\ summary_file' = SavedSummary(results_file.recs, result)
  /\ save_calls' = Append(save_calls, result.session_number)
  /\ save_pc' = "idle"
  /\ pc' = "report"
  /\ UNCHANGED <<results_file, faults>>
  /\ SaveUnchanged

\* what display_progress leaves alone
MonitorUnchanged ==
  /\ UNCHANGED <<bot_vars, startup_vars, pdf_vars, find_vars, click_vars,
                 search_error_vars, prompt_vars>>
  /\ UNCHANGED save_pc

\* main calls display_progress, the first time or ten seconds after the
\* call before it ended.  display_progress up to "summary = json.load(f)":
\* without a results file or a summary file it returns, a summary file that
\* is being written raises JSONDecodeError
monitor_load_summary ==
  /\ mon_pc \in {"idle", "returned", "error", "displayed"}
  /\ IF ~ResultsOnDisk \/ ~SummaryOnDisk
     THEN /\ mon_pc' = "returned"
          /\ mon_summary' = None
     ELSE IF save_pc = "summary_open"
     THEN /\ mon_pc' = "error"
          /\ mon_summary' = None
     ELSE /\ mon_pc' = "summary_loaded"
          /\ mon_summary' = summary_file
  /\ mon_results' = None
  /\ MonitorUnchanged

\* "all_results = json.load(f)", then the statistics are printed; a results
\* file that is being written raises JSONDecodeError
monitor_load_results ==
  /\ mon_pc = "summary_loaded"
  /\ IF save_pc = "results_open"
     THEN /\ mon_pc' = "error"
          /\ UNCHANGED mon_results
     ELSE /\ mon_pc' = "displayed"
          /\ mon_results' = results_file.recs
  /\ UNCHANGED mon_summary
  /\ MonitorUnchanged

\* the bot about to save the record of session k + 1, the files holding
\* the k records before it, and monitor.py running
InitMonitor ==
  \E k \in 0..MaxMonRecs : \E oks \in [1..(k + 1) -> BOOLEAN] :
    LET recs == [i \in 1..k |-> SessionRecord(i, oks[i])]
        res == SessionRecord(k + 1, oks[k + 1])
    IN /\ NoAttempt
       /\ NoSideCalls
       /\ NotAsked
       /\ previous_file = NoPreviousFile
       /\ Started({"https://target.example/page"})
       /\ pc = "save"
       /\ session_num = k + 1
       /\ daily_sessions = k + 1
       /\ override_hours = TRUE
       /\ session_results = Append(recs, res)
       /\ results_file = [exists |-> k > 0, recs |-> recs]
       /\ save_calls = [i \in 1..k |-> i]
       /\ result = res
       /\ summary_file = IF k = 0 THEN NoSummary
                         ELSE SavedSummary(recs, recs[k])
       /\ reports = <<>>
       /\ fault_budget = MaxConfigFaults
       /\ config = [daily_sessions_max |-> k + 1,
                    report_frequency |-> MaxMonRecs + 2,
                    session_duration_min |-> 1,
                    session_duration_max |-> 1,
                    max_clicks_per_session |-> MaxClicks]

NextMonitor ==
  \/ save_open_results
  \/ save_write_results
  \/ save_open_summary
  \/ save_write_summary
  \/ monitor_load_summary
  \/ monitor_load_results

SpecMonitor == InitMonitor /\ [][NextMonitor]_vars

\* ---- C27 ----
\* the dwell time of a successful record is at least the shortest dwell
\* that can be sampled
DwellRecorded(r) ==
  r.success => r.time_on_target_url >= config.session_duration_min

\* C27 (as claimed): in every record with success = true, returned or kept
\* by run_bot, time_on_target_url is at least session_duration_min.
C27_DwellTimeRecorded ==
  /\ apc = "returned" => DwellRecorded(result)
  /\ \A i \in 1..Len(session_results) : DwellRecorded(session_results[i])


\* ---- C28 ----
\* run_bot calls _run_single_session although _is_french_hours() returned
\* False at the top of this iteration, or would have
SessionStartedOutsideHours ==
  /\ run_bot_loop_head_at(FALSE)
  /\ pc' = "session"

\* C28 (as claimed): a session is started outside the operating-hour window
\* only if the operator answered Y to the out-of-hours prompt.
C28_OutsideHoursOnlyOnYes ==
  [][SessionStartedOutsideHours => response = "Y"]_vars


\* ---- C29 ----
\* the first iteration of run_bot's loop, not stopped by the hours check,
\* of a run whose config.json is absent
FirstIterationOnDefaults ==
  /\ run_bot_loop_head
  /\ config_json.state = "absent"
  /\ session_num = 1
  /\ override_hours

\* C29 (as claimed): without a config.json, the first iteration of
\* run_bot's loop goes on to execute a session.
C29_DefaultsSufficient ==
  [][FirstIterationOnDefaults => pc' = "session"]_vars


\* ---- C30 ----
\* the summary display_progress loaded describes the results it loaded
SummaryAgrees(summary, all_results) ==
  /\ Len(all_results) > 0
  /\ summary.total_sessions_completed = Len(all_results)
  /\ summary.latest_session = all_results[Len(all_results)]

\* C30 (as claimed): whenever the monitor displays statistics, the summary
\* it loaded agrees with the results it loaded; stated for the runs in
\* which every read of the save succeeds.
C30_MonitorConsistent ==
  (mon_pc = "displayed" /\ faults = 0) =>
    SummaryAgrees(mon_summary, mon_results)

====
